---------------------------- MODULE Spec2Model ----------------------------
(***************************************************************************)
(* A model of the Idle Orchestration Core of stasis: the Manager state,    *)
(* the event router (handle_event), the inhibitor counter, the IPC         *)
(* commands that mutate the Manager, the idle loop's check_timeouts, the   *)
(* compositor's idle notifications and the lock watcher.                   *)
(*                                                                         *)
(* Every handler runs with the Manager mutex held from its first to its    *)
(* last statement, so each handler is one atomic action and every state    *)
(* of the model is a quiescent point.  Instants are whole seconds.         *)
(* Option<Instant>::None is the integer None (-1).  Vec indices are        *)
(* 0-based as in the source; Seq positions are index + 1.                  *)
(*                                                                         *)
(* Fields that only feed the `info` display (last_activity_display,        *)
(* start_time, lock_state.last_advanced, media_blocking) and               *)
(* the fields that are written and never read (resume_commands_fired,     *)
(* lock_state.post_advanced) are not carried.                              *)
(* The idle loop's sleep is abstracted: it may wake at any time, which is  *)
(* what its 60 s cap and the compositor's Idled event allow anyway.  The   *)
(* Notify signals, which only cut the sleep short, are not carried.        *)
(***************************************************************************)
EXTENDS Integers, Sequences, FiniteSets, TLC

\* ------------------------------------------------------------------ bounds
\* The clock runs from 0 to MaxTime seconds.
MaxTime == 3
\* The inhibitor adapters hold at most this many inhibitors at once.
MaxInhibitors == 2

\* Option::None of an Option<Instant>.
None == -1

NoCmd == "<none>"

Min(a, b) == IF a <= b THEN a ELSE b

\* ---------------------------------------------------------- configurations
\* IdleActionBlock as collect_actions builds it; prefix is the "ac." /
\* "battery." prefix load_config puts on the name.
Act(prefix, name, kind, timeout, command, resume_command) ==
    [prefix |-> prefix, name |-> name, kind |-> kind, timeout |-> timeout,
     command |-> command, lock_command |-> NoCmd,
     resume_command |-> resume_command, last_triggered |-> None,
     notification |-> NoCmd]

\* A desktop: dim, announced one second ahead, then lock as the last stage.
CfgDeskLock ==
    [chassis |-> "Desktop", debounce_seconds |-> 0,
     notify_before_action |-> TRUE, notify_seconds_before |-> 1,
     lid_close_action |-> "Ignore", lid_open_action |-> "Ignore",
     pre_suspend_command |-> NoCmd,
     actions |-> << [Act("", "brightness", "Brightness", 1, "dim", "undim")
                        EXCEPT !.notification = "Dimming"],
                    Act("", "lock_screen", "LockScreen", 1, "swaylock", NoCmd) >>]

\* A desktop whose first action is instant (timeout 0) and whose last stage
\* has a resume command.
CfgDeskInstant ==
    [chassis |-> "Desktop", debounce_seconds |-> 0,
     notify_before_action |-> FALSE, notify_seconds_before |-> 0,
     lid_close_action |-> "Ignore", lid_open_action |-> "Ignore",
     pre_suspend_command |-> NoCmd,
     actions |-> << Act("", "startup", "Custom", 0, "startup-hook", NoCmd),
                    Act("", "dpms", "Dpms", 1, "dpms-off", "dpms-on") >>]

\* A laptop with a lock on ac and a suspend on battery, a debounce of one
\* second; the lid locks on close and wakes on open.
CfgLaptop ==
    [chassis |-> "Laptop", debounce_seconds |-> 1,
     notify_before_action |-> FALSE, notify_seconds_before |-> 0,
     lid_close_action |-> "LockScreen", lid_open_action |-> "Wake",
     pre_suspend_command |-> "sync",
     actions |-> << Act("ac", "ac.lock_screen", "LockScreen", 1, "swaylock", "unlock-hook"),
                    Act("battery", "battery.suspend", "Suspend", 1, "systemctl suspend", NoCmd) >>]

Configs == {CfgDeskLock, CfgDeskInstant, CfgLaptop}

\* The answers of the environment one handler sees: logind's LockedHint
\* (None when the query fails), pgrep for the lock process, and whether a
\* spawn succeeds.
Env == [logind : {"locked", "unlocked", "none"}, running : BOOLEAN, spawn_ok : BOOLEAN]

\* A handler that only resets asks pgrep alone, and only while locked.
ResetEnv(locked) ==
    {e \in Env : e.logind = "none" /\ e.spawn_ok /\ (locked \/ e.running)}

\* A handler that runs actions: prepare_action takes logind's Some(true) and
\* a pgrep hit alike, so the pgrep answer stands for both.
RunEnv == {e \in Env : e.logind = "none"}

\* A handler that only spawns.
SpawnEnv == {e \in Env : e.logind = "none" /\ e.running}

VARIABLES
    mgr,            \* the Manager: ManagerState, plus what the last handler fired and spawned
    now,            \* Instant::now(), in seconds
    started,        \* run_daemon has run its startup sequence
    lw_pc,          \* the lock watcher: "watch" (polling) or "ended" (saw the lock end)
    ipc,            \* the IPC `info` connection and the two mutexes it meets
    sd,             \* shutdown: its phase, the tasks' positions, who was notified
    media,          \* the media monitors: the players, the bridge, the polling tasks
    idle            \* the scheduler task: its position, its sleep deadline, the Notify

vars == << mgr, now, started, lw_pc, ipc, sd, media, idle >>

\* The long-running tasks that shutdown is followed through: the scheduler,
\* the lock supervisor and the AC/battery poller.
Tasks == {"idle", "lock", "power"}

\* Every task parked on its wait, nobody holding the Manager mutex, shutdown
\* not called, nobody waiting for a command or for a delay tied to one.
SdRunning ==
    [phase |-> "running", mutex |-> "free", notified |-> {}, wait |-> "none",
     pc |-> [t \in Tasks |-> "parked"]]

\* The scheduler parked in its select with no deadline followed, no permit
\* stored in state.notify, nobody holding the Manager mutex, no handler about
\* to signal and no notify_waiters that found nobody waiting.
IdleParked ==
    [pc |-> "parked", deadline |-> None, at |-> None, permit |-> FALSE,
     woken |-> FALSE, mutex |-> "free",
     pending |-> [one |-> FALSE, waiters |-> FALSE], missed |-> FALSE]

\* The most browser tabs that play at once, and the most polling tasks of the
\* browser monitor followed at once.
MaxTabs == 2

MaxMonitors == 2

\* The media monitors are followed while they hold at most this many
\* inhibitors.
MaxHeld == 3

\* A polling task of the browser monitor that was never spawned.
NoMonitor == [pc |-> "none", last_state |-> None, connected |-> FALSE, stopped |-> FALSE]

\* No media monitor running, nothing playing, no bridge socket.
MediaIdle ==
    [socket |-> FALSE, was_detected |-> FALSE, vlc |-> FALSE, tabs |-> 0,
     signal |-> FALSE, media_playing |-> FALSE,
     bridge |-> [active |-> FALSE, browser_playing |-> FALSE, playing_tab_count |-> 0],
     reads_bridge |-> FALSE, monitor_running |-> FALSE, shutdown_signal |-> FALSE,
     stopping |-> FALSE, tasks |-> [i \in 1..MaxMonitors |-> NoMonitor]]

\* No `info` request in flight, both mutexes free.
IpcIdle ==
    [mutex |-> "free", app_mutex |-> "free", pc |-> "accept",
     retry_count |-> 0, slept |-> 0, response |-> "none"]

\* ------------------------------------------------------------ ManagerState
IsInstant(a) == a.timeout = 0

IsLoginctl(cmd) == cmd = "loginctl lock-session"

Split(c, p) == SelectSeq(c.actions, LAMBDA a : a.prefix = p)

HasLock(seq) == \E i \in 1..Len(seq) : seq[i].kind = "LockScreen"

\* position(|a| a.kind == LockScreen), 0-based; only used where HasLock.
LockIndex(seq) == (CHOOSE i \in 1..Len(seq) :
                      /\ seq[i].kind = "LockScreen"
                      /\ \A j \in 1..(i - 1) : seq[j].kind # "LockScreen") - 1

\* post_advanced is written by handlers and read by nothing; the state kept
\* between handlers leaves it out (Quiescent).
LockStateFromConfig(c) ==
    [is_locked |-> FALSE, process_info |-> FALSE, post_advanced |-> FALSE,
     command |-> IF HasLock(c.actions)
                 THEN LET a == c.actions[LockIndex(c.actions) + 1]
                      IN IF a.lock_command # NoCmd THEN a.lock_command ELSE a.command
                 ELSE NoCmd]

\* ManagerState::new.  fired and spawned are what a handler did besides
\* changing the state: the stages its check_timeouts fired and the commands
\* it handed to the shell, in order.  They are empty between handlers.
New(c, t) ==
    [cfg |-> c,
     actions |-> [default |-> Split(c, ""), ac |-> Split(c, "ac"),
                  battery |-> Split(c, "battery")],
     action_index |-> 0,
     active_inhibitor_count |-> 0,
     chassis |-> c.chassis,
     on_battery |-> FALSE,
     current_block |-> IF c.chassis = "Laptop" THEN "ac" ELSE "default",
     debounce |-> t + c.debounce_seconds,
     instants_triggered |-> FALSE,
     last_activity |-> t,
     lock_state |-> LockStateFromConfig(c),
     manually_paused |-> FALSE,
     paused |-> FALSE,
     previous_brightness |-> FALSE,
     resume_queue |-> << >>,
     pending_notification_task |-> FALSE,
     notification_sent_for_action |-> None,
     fired |-> << >>, spawned |-> << >>]

\* Option<bool>: "none" on a desktop.
OnBattery(s) ==
    IF s.chassis = "Laptop" THEN (IF s.on_battery THEN "true" ELSE "false") ELSE "none"

\* The block chosen by reset, check_timeouts, trigger_all_idle_actions and
\* trigger_action_by_name.
BlockName(s) ==
    IF s.actions.ac # << >> \/ s.actions.battery # << >>
    THEN CASE OnBattery(s) = "true" -> "battery"
           [] OnBattery(s) = "false" -> "ac"
           [] OTHER -> "default"
    ELSE "default"

GetActiveActions(s) == s.actions[s.current_block]

GetActiveInstantActions(s) == SelectSeq(GetActiveActions(s), IsInstant)

UpdateCurrentBlock(s) ==
    LET new_block ==
            IF s.chassis = "Desktop" THEN "default"
            ELSE IF s.on_battery
                 THEN (IF s.actions.battery # << >> THEN "battery" ELSE "default")
                 ELSE (IF s.actions.ac # << >> THEN "ac" ELSE "default")
    IN  IF new_block # s.current_block
        THEN [s EXCEPT !.current_block = new_block,
                       !.action_index = 0,
                       !.instants_triggered = FALSE,
                       !.pending_notification_task = FALSE,
                       !.notification_sent_for_action = None]
        ELSE s

\* ActionQueue::switch_block without the reset of the cursor.
SwitchBlockKeepingIndex(s, new_block) ==
    IF new_block = s.current_block THEN [state |-> s, changed |-> FALSE]
    ELSE [state |-> [s EXCEPT !.current_block = new_block,
                              !.instants_triggered = FALSE,
                              !.pending_notification_task = FALSE,
                              !.notification_sent_for_action = None],
          changed |-> TRUE]

\* ActionQueue::switch_block: the queue it leaves and the bool it returns.
SwitchBlock(s, new_block) ==
    IF new_block = s.current_block THEN [state |-> s, changed |-> FALSE]
    ELSE [state |-> [s EXCEPT !.current_block = new_block,
                              !.action_index = 0,
                              !.instants_triggered = FALSE,
                              !.pending_notification_task = FALSE,
                              !.notification_sent_for_action = None],
          changed |-> TRUE]

SetOnBattery(s, value) ==
    IF s.chassis = "Laptop"
    THEN UpdateCurrentBlock([s EXCEPT !.on_battery = value])
    ELSE s

\* ------------------------------------------------------- pause and resume
\* pause() with the manual and the automatic flag set independently.
PauseIgnoringManual(s, manual) ==
    IF manual THEN [s EXCEPT !.manually_paused = TRUE]
    ELSE [s EXCEPT !.paused = TRUE]

Pause(s, manual) ==
    IF manual THEN [s EXCEPT !.manually_paused = TRUE, !.paused = FALSE]
    ELSE IF ~s.manually_paused THEN [s EXCEPT !.paused = TRUE]
    ELSE s

Resume(s, manually) ==
    IF manually
    THEN (IF s.manually_paused
          THEN [s EXCEPT !.manually_paused = FALSE, !.paused = FALSE]
          ELSE s)
    ELSE IF ~s.manually_paused /\ s.paused THEN [s EXCEPT !.paused = FALSE]
    ELSE s

SetManualInhibit(s, inhibit) ==
    IF inhibit
    THEN [Pause(s, TRUE) EXCEPT !.manually_paused = TRUE]
    ELSE [Resume(s, TRUE) EXCEPT !.manually_paused = FALSE]

\* ---------------------------------------------------------- running actions
\* run_command_detached / tokio::spawn(run_command_silent): the command is
\* handed to the shell.
Spawn(s, cmd) == [s EXCEPT !.spawned = Append(@, cmd)]

AdvancePastLock(s) == [s EXCEPT !.lock_state.post_advanced = TRUE]

\* The command of the RunCommand request, NoCmd for Skip or no request.
PrepareAction(a, env) ==
    IF a.kind = "LockScreen"
    THEN (IF env.logind = "locked" \/ env.running THEN NoCmd ELSE a.command)
    ELSE a.command

RunCommandForAction(s, a, cmd, env) ==
    IF a.kind = "LockScreen"
    THEN IF IsLoginctl(cmd)
         THEN LET s1 == Spawn(s, cmd)
              IN  IF a.lock_command # NoCmd
                  THEN (IF env.spawn_ok
                        THEN [Spawn(s1, a.lock_command) EXCEPT
                                 !.lock_state.process_info = TRUE,
                                 !.lock_state.is_locked = TRUE]
                        ELSE Spawn(s1, a.lock_command))
                  ELSE [s1 EXCEPT !.lock_state.is_locked = TRUE]
         ELSE IF env.spawn_ok
              THEN [Spawn(s, cmd) EXCEPT !.lock_state.process_info = TRUE,
                                         !.lock_state.is_locked = TRUE]
              ELSE Spawn(s, cmd)
    ELSE Spawn(s, cmd)

\* run_action with is_locked left to a successful spawn of the locker.
RunActionLockOnSpawn(s, a, env) ==
    IF a.kind = "LockScreen" /\ IsLoginctl(a.command) THEN Spawn(s, a.command)
    ELSE IF a.kind = "LockScreen" /\ s.lock_state.is_locked THEN s
    ELSE LET s1 == IF a.kind = "Brightness" /\ ~s.previous_brightness /\ env.spawn_ok
                   THEN [s EXCEPT !.previous_brightness = TRUE] ELSE s
             s3 == IF a.kind = "Suspend" /\ s1.cfg.pre_suspend_command # NoCmd
                   THEN Spawn(s1, s1.cfg.pre_suspend_command) ELSE s1
             cmd == PrepareAction(a, env)
         IN  IF cmd # NoCmd THEN RunCommandForAction(s3, a, cmd, env) ELSE s3

RunAction(s, a, env) ==
    IF a.kind = "LockScreen" /\ IsLoginctl(a.command) THEN Spawn(s, a.command)
    ELSE IF a.kind = "LockScreen" /\ s.lock_state.is_locked THEN s
    ELSE LET s1 == IF a.kind = "Brightness" /\ ~s.previous_brightness /\ env.spawn_ok
                   THEN [s EXCEPT !.previous_brightness = TRUE] ELSE s
             s2 == IF a.kind = "LockScreen"
                   THEN [s1 EXCEPT !.lock_state.is_locked = TRUE] ELSE s1
             s3 == IF a.kind = "Suspend" /\ s2.cfg.pre_suspend_command # NoCmd
                   THEN Spawn(s2, s2.cfg.pre_suspend_command) ELSE s2
             cmd == PrepareAction(a, env)
         IN  IF cmd # NoCmd THEN RunCommandForAction(s3, a, cmd, env) ELSE s3

RECURSIVE RunActions(_, _, _)
\* for action in seq { run_action(mgr, &action) }
RunActions(s, seq, env) ==
    IF seq = << >> THEN s
    ELSE RunActions(RunAction(s, Head(seq), env), Tail(seq), env)

TriggerInstantActions(s, env) ==
    IF s.instants_triggered THEN s
    ELSE LET instant_actions == GetActiveInstantActions(s)
         IN  [RunActions(s, instant_actions, env) EXCEPT !.instants_triggered = TRUE]

ResetInstantActions(s) == [s EXCEPT !.instants_triggered = FALSE]

FireResumeQueue(s) ==
    [s EXCEPT !.spawned = @ \o [i \in 1..Len(s.resume_queue) |->
                                   s.resume_queue[i].resume_command],
              !.resume_queue = << >>]

\* ---------------------------------------------------------------- reset
PastLock(seq, i) == \E j \in 1..i : seq[j].kind = "LockScreen"

\* The loop of reset over one block.
ClearTriggered(seq, is_locked) ==
    [i \in 1..Len(seq) |->
        IF is_locked /\ PastLock(seq, i) THEN seq[i]
        ELSE [seq[i] EXCEPT !.last_triggered = None]]

\* position(|a| a.last_triggered.is_none()).unwrap_or(len.saturating_sub(1))
FirstUntriggered(seq) ==
    IF \E i \in 1..Len(seq) : seq[i].last_triggered = None
    THEN (CHOOSE i \in 1..Len(seq) :
             /\ seq[i].last_triggered = None
             /\ \A j \in 1..(i - 1) : seq[j].last_triggered # None) - 1
    ELSE IF Len(seq) = 0 THEN 0 ELSE Len(seq) - 1

\* The branch of reset taken while locked with a lock stage in the block.
ResetLocked(s, block_name, debounce_end) ==
    LET actions == s.actions[block_name]
        lock_index == LockIndex(actions)
        idx == lock_index + 1
    IN  [s EXCEPT !.action_index = idx,
                  !.lock_state.post_advanced = TRUE,
                  !.actions[block_name] =
                      IF idx < Len(actions)
                      THEN [actions EXCEPT ![idx + 1].last_triggered = debounce_end]
                      ELSE [actions EXCEPT ![lock_index + 1].last_triggered = debounce_end]]

Reset(s, t, env) ==
    LET debounce_end == t + s.cfg.debounce_seconds
        locked == s.lock_state.is_locked
        s1 == [s EXCEPT !.previous_brightness = FALSE,
                        !.debounce = debounce_end,
                        !.actions = [b \in DOMAIN s.actions |->
                                        ClearTriggered(s.actions[b], locked)]]
        block_name == BlockName(s1)
        s2 == [s1 EXCEPT !.current_block = block_name]
        actions == s2.actions[block_name]
        index == FirstUntriggered(actions)
        still_active == IF s2.lock_state.command # NoCmd THEN env.running ELSE TRUE
        s3 == IF locked /\ HasLock(actions) /\ still_active
              THEN ResetLocked(s2, block_name, debounce_end)
              ELSE s2
    IN  IF actions # << >> /\ IsInstant(actions[index + 1]) THEN s2
        ELSE FireResumeQueue(s3)

\* ------------------------------------------------------------ check_timeouts
\* What check_timeouts records of the stage it fires: the clone taken before
\* the stamping (so last_triggered is the value the stage had), and its index.
Fired(a, index) ==
    [name |-> a.name, kind |-> a.kind, timeout |-> a.timeout,
     last_triggered |-> a.last_triggered, index |-> index]

\* The body of `if elapsed >= timeout` in check_timeouts.
FireStage(s, block_name, index, t, env) ==
    LET actions == s.actions[block_name]
        action_clone == actions[index + 1]
        stamped == [actions EXCEPT ![index + 1].last_triggered = t]
        advanced == s.action_index + 1
        s1 == IF advanced < Len(actions)
              THEN [s EXCEPT !.action_index = advanced,
                             !.actions[block_name] =
                                 [stamped EXCEPT ![advanced + 1].last_triggered = t]]
              ELSE [s EXCEPT !.action_index = Len(actions) - 1,
                             !.actions[block_name] = stamped]
        s2 == IF action_clone.kind # "LockScreen" /\ action_clone.resume_command # NoCmd
              THEN [s1 EXCEPT !.resume_queue = Append(@, action_clone)]
              ELSE s1
        s3 == [s2 EXCEPT !.fired = Append(@, Fired(action_clone, index))]
    IN  RunAction(s3, action_clone, env)

\* A gate that looks at the automatic flag alone.
OnlyAutoPaused(s) == s.paused

\* The gate at the top of check_timeouts.
TimersPaused(s) == s.paused \/ s.manually_paused

\* No skip at all.
NeverSkipped(s, a) == FALSE

\* Skip lock if already locked.
LockSkipped(s, a) == a.kind = "LockScreen" /\ s.lock_state.is_locked

\* The reference taken from last_activity whatever the stage's stamp.
LastActivityRef(s, a) == s.last_activity

\* last_triggered.unwrap_or(last_activity)
LastRef(s, a) == IF a.last_triggered # None THEN a.last_triggered ELSE s.last_activity

\* now.duration_since(last_ref), which saturates at zero.
Elapsed(t, last_ref) == IF t >= last_ref THEN t - last_ref ELSE 0

\* check_timeouts once the pause gate is passed.
CheckDue(s, t, env) ==
    IF s.debounce # None /\ t < s.debounce THEN s
    ELSE LET s1 == IF s.debounce # None
                   THEN [s EXCEPT !.last_activity = t, !.debounce = None]
                   ELSE s
             block_name == BlockName(s1)
             s2 == [s1 EXCEPT !.current_block = block_name]
             actions == s2.actions[block_name]
             index == Min(s2.action_index, Len(actions) - 1)
         IN  IF actions = << >> THEN s2
             ELSE IF LockSkipped(s2, actions[index + 1]) THEN s2
             ELSE IF Elapsed(t, LastRef(s2, actions[index + 1])) >= actions[index + 1].timeout
                  THEN FireStage(s2, block_name, index, t, env)
                  ELSE s2

CheckTimeouts(s, t, env) ==
    IF TimersPaused(s) THEN s ELSE CheckDue(s, t, env)

\* --------------------------------------------------------------- inhibitors
IncrActiveInhibitor(s) ==
    LET prev == s.active_inhibitor_count
        s1 == [s EXCEPT !.active_inhibitor_count = prev + 1]
    IN  IF prev = 0 /\ ~s.manually_paused
                  THEN [s1 EXCEPT !.paused = TRUE] ELSE s1

DecrActiveInhibitor(s, t, env) ==
    LET prev == s.active_inhibitor_count
        s1 == [s EXCEPT !.active_inhibitor_count = prev - 1]
    IN  IF prev = 0 THEN s
        ELSE IF prev - 1 = 0
             THEN (IF ~s1.manually_paused
                   THEN FireResumeQueue(Reset([s1 EXCEPT !.paused = FALSE], t, env))
                   ELSE s1)
             ELSE s1

\* ----------------------------------------------------------- IPC commands
RECURSIVE TriggerEach(_, _, _)
\* The loop of trigger_all_idle_actions: the lock is skipped while locked.
TriggerEach(s, seq, env) ==
    IF seq = << >> THEN s
    ELSE IF Head(seq).kind = "LockScreen" /\ s.lock_state.is_locked
         THEN TriggerEach(s, Tail(seq), env)
         ELSE TriggerEach(RunAction(s, Head(seq), env), Tail(seq), env)

TriggerAllIdleActions(s, t, env) ==
    LET block_name == BlockName(s)
        actions_to_trigger == s.actions[block_name]
        s1 == TriggerEach(s, actions_to_trigger, env)
    IN  IF actions_to_trigger = << >> THEN s
        ELSE [s1 EXCEPT !.actions[block_name] =
                            [i \in 1..Len(actions_to_trigger) |->
                                [s1.actions[block_name][i] EXCEPT !.last_triggered = t]],
                        !.action_index = Len(actions_to_trigger) - 1]

ClearAll(seq) == [i \in 1..Len(seq) |-> [seq[i] EXCEPT !.last_triggered = None]]

\* The lock branch of trigger_action_by_name, after run_action.
TriggerLockTimers(s, t) ==
    LET debounce_end == t + s.cfg.debounce_seconds
        s1 == [s EXCEPT !.last_activity = t,
                        !.debounce = debounce_end,
                        !.actions = [b \in DOMAIN s.actions |-> ClearAll(s.actions[b])]]
        active_block == BlockName(s1)
        actions == s1.actions[active_block]
        first == FirstUntriggered(actions)
        skip == HasLock(actions) /\ first <= LockIndex(actions)
        next_index == IF skip THEN LockIndex(actions) + 1 ELSE first
    IN  [s1 EXCEPT !.action_index = next_index,
                   !.lock_state.post_advanced = IF skip THEN TRUE ELSE @,
                   !.actions[active_block] =
                       IF skip /\ next_index < Len(actions)
                       THEN [actions EXCEPT ![next_index + 1].last_triggered = debounce_end]
                       ELSE actions]

TriggerActionByName(s, name, t, env) ==
    LET block == s.actions[BlockName(s)]
        found == \E i \in 1..Len(block) : block[i].name = name
        action == block[CHOOSE i \in 1..Len(block) :
                            /\ block[i].name = name
                            /\ \A j \in 1..(i - 1) : block[j].name # name]
    IN  IF ~found THEN s
        ELSE IF action.kind = "LockScreen"
             THEN LET s1 == [s EXCEPT !.lock_state.is_locked = TRUE,
                                      !.lock_state.post_advanced = FALSE,
                                      !.lock_state.command = action.command]
                  IN  TriggerLockTimers(AdvancePastLock(RunAction(s1, action, env)), t)
             ELSE RunAction(s, action, env)

UpdateFromConfig(s, c, t) ==
    LET s1 == [s EXCEPT !.previous_brightness = FALSE,
                        !.actions = [default |-> Split(c, ""), ac |-> Split(c, "ac"),
                                     battery |-> Split(c, "battery")]]
        s2 == UpdateCurrentBlock(s1)
    IN  [s2 EXCEPT !.pending_notification_task = FALSE,
                             !.notification_sent_for_action = None,
                             !.instants_triggered = FALSE,
                             !.debounce = t + c.debounce_seconds,
                             !.cfg = c,
                             !.lock_state = LockStateFromConfig(c),
                             !.last_activity = t,
                             !.action_index = 0]

\* -------------------------------------------------------------- the system
\* The state a handler leaves behind.
Quiescent(s) ==
    [s EXCEPT !.fired = << >>, !.spawned = << >>, !.lock_state.post_advanced = FALSE]

Init ==
    /\ \E c \in Configs : mgr = New(c, 0)
    /\ now = 0
    /\ started = FALSE
    /\ lw_pc = "watch"
    /\ ipc = IpcIdle
    /\ sd = SdRunning
    /\ media = MediaIdle
    /\ idle = IdleParked

\* A handler that ran under the Manager mutex and left the state s.
Handle(s) ==
    /\ started
    /\ mgr' = Quiescent(s)
    /\ UNCHANGED << now, started, ipc, sd, media, idle >>

\* run_daemon after the tasks are spawned: detect_initial_power_state, then
\* trigger_instant_actions.
Startup ==
    /\ ~started
    /\ started' = TRUE
    /\ \E env \in RunEnv, on_ac \in BOOLEAN :
          mgr' = Quiescent(TriggerInstantActions(SetOnBattery(mgr, ~on_ac), env))
    /\ UNCHANGED << now, lw_pc, ipc, sd, media, idle >>

\* Time passes.
Tick ==
    /\ started
    /\ now < MaxTime
    /\ now' = now + 1
    /\ UNCHANGED << mgr, started, lw_pc, ipc, sd, media, idle >>

\* ------------------------------------------------------------ handle_event
ACEvent(s, on_battery, env) ==
    LET s1 == SetOnBattery(s, on_battery)
        s2 == ResetInstantActions([s1 EXCEPT !.action_index = 0])
    IN  TriggerInstantActions(s2, env)

ACConnected ==
    /\ \E env \in RunEnv : Handle(ACEvent(mgr, FALSE, env))
    /\ UNCHANGED lw_pc

ACDisconnected ==
    /\ \E env \in RunEnv : Handle(ACEvent(mgr, TRUE, env))
    /\ UNCHANGED lw_pc

InputActivity ==
    /\ \E env \in ResetEnv(mgr.lock_state.is_locked) :
          Handle(Reset(mgr, now, env))
    /\ UNCHANGED lw_pc

Suspend ==
    /\ Handle(Pause(mgr, FALSE))
    /\ UNCHANGED lw_pc

ResumeEvent ==
    /\ Handle(Resume(mgr, FALSE))
    /\ UNCHANGED lw_pc

Wake ==
    /\ \E env \in ResetEnv(mgr.lock_state.is_locked) :
          Handle(Reset(Resume(mgr, FALSE), now, env))
    /\ UNCHANGED lw_pc

LockScreenDetected ==
    /\ Handle(AdvancePastLock(mgr))
    /\ UNCHANGED lw_pc

MediaPlaybackActive ==
    /\ Handle(Pause(mgr, FALSE))
    /\ UNCHANGED lw_pc

MediaPlaybackEnded ==
    /\ Handle(Resume(mgr, FALSE))
    /\ UNCHANGED lw_pc

\* cfg.actions.iter().find(|a| a.kind == kind), as a sequence of 0 or 1.
FindKind(c, kind) ==
    LET found == SelectSeq(c.actions, LAMBDA a : a.kind = kind)
    IN  IF found = << >> THEN << >> ELSE << Head(found) >>

LidClosedEvent(s, env) ==
    CASE s.cfg.lid_close_action = "Suspend" ->
             RunActions(s, FindKind(s.cfg, "Suspend"), env)
      [] s.cfg.lid_close_action = "LockScreen" ->
             RunActions(s, FindKind(s.cfg, "LockScreen"), env)
      [] OTHER -> s

LidClosed ==
    /\ \E env \in RunEnv : Handle(LidClosedEvent(mgr, env))
    /\ UNCHANGED lw_pc

LidOpenedEvent(s, t, env) ==
    IF s.cfg.lid_open_action = "Wake" THEN Reset(Resume(s, FALSE), t, env) ELSE s

LidOpened ==
    /\ \E env \in ResetEnv(mgr.lock_state.is_locked) :
          Handle(LidOpenedEvent(mgr, now, env))
    /\ UNCHANGED lw_pc

\* The LoginctlLock arm without its already-locked test.
LoginctlLockUnguarded(s, env) ==
    LET lock == FindKind(s.cfg, "LockScreen")
        lock_cmd == IF lock = << >> THEN NoCmd ELSE lock[1].lock_command
        s1 == [s EXCEPT !.lock_state.is_locked = TRUE]
        s2 == IF lock_cmd # NoCmd
              THEN [Spawn(s1, lock_cmd) EXCEPT
                       !.lock_state.process_info = IF env.spawn_ok THEN TRUE ELSE @]
              ELSE s1
    IN  AdvancePastLock(s2)

LoginctlLockEvent(s, env) ==
    LET lock == FindKind(s.cfg, "LockScreen")
        lock_cmd == IF lock = << >> THEN NoCmd ELSE lock[1].lock_command
        s1 == [s EXCEPT !.lock_state.is_locked = TRUE]
        s2 == IF lock_cmd # NoCmd
              THEN [Spawn(s1, lock_cmd) EXCEPT
                       !.lock_state.process_info = IF env.spawn_ok THEN TRUE ELSE @]
              ELSE s1
    IN  IF s.lock_state.is_locked THEN s ELSE AdvancePastLock(s2)

LoginctlLock ==
    /\ \E env \in SpawnEnv : Handle(LoginctlLockEvent(mgr, env))
    /\ UNCHANGED lw_pc

LoginctlUnlock ==
    /\ \E env \in ResetEnv(mgr.lock_state.is_locked) :
          Handle(Reset(mgr, now, env))
    /\ UNCHANGED lw_pc

\* ---------------------------------------------------- inhibitor adapters
IncrInhibitor ==
    /\ mgr.active_inhibitor_count < MaxInhibitors
    /\ Handle(IncrActiveInhibitor(mgr))
    /\ UNCHANGED lw_pc

DecrInhibitor ==
    /\ \E env \in ResetEnv(mgr.lock_state.is_locked) :
          Handle(DecrActiveInhibitor(mgr, now, env))
    /\ UNCHANGED lw_pc

\* ------------------------------------------------------------------- IPC
PauseCmd ==
    /\ Handle(Pause(mgr, TRUE))
    /\ UNCHANGED lw_pc

ResumeCmd ==
    /\ Handle(Resume(mgr, TRUE))
    /\ UNCHANGED lw_pc

ToggleInhibit ==
    /\ Handle(SetManualInhibit(mgr, ~mgr.manually_paused))
    /\ UNCHANGED lw_pc

TriggerAll ==
    /\ \E env \in RunEnv : Handle(TriggerAllIdleActions(mgr, now, env))
    /\ UNCHANGED lw_pc

ActionNames(c) == {c.actions[i].name : i \in 1..Len(c.actions)}

TriggerByName ==
    /\ \E env \in RunEnv, name \in ActionNames(mgr.cfg) :
          Handle(TriggerActionByName(mgr, name, now, env))
    /\ UNCHANGED lw_pc

\* reload, the config file unchanged on disk.
Reload ==
    /\ \E env \in RunEnv :
          Handle(TriggerInstantActions(UpdateFromConfig(mgr, mgr.cfg, now), env))
    /\ UNCHANGED lw_pc

\* ------------------------------------------------- compositor idle notifier
WaylandIdled ==
    /\ \E env \in RunEnv : Handle(CheckTimeouts(mgr, now, env))
    /\ UNCHANGED lw_pc

WaylandResumed ==
    /\ \E env \in ResetEnv(mgr.lock_state.is_locked) :
          Handle(Reset(mgr, now, env))
    /\ UNCHANGED lw_pc

\* ------------------------------------------------------------ the idle loop
\* One wake of spawn_idle_task: check_timeouts once, under the mutex, unless
\* paused.
IdleCheckBody(s, t, env) ==
    IF ~s.paused /\ ~s.manually_paused THEN CheckTimeouts(s, t, env) ELSE s

IdleCheck ==
    /\ \E env \in RunEnv : Handle(IdleCheckBody(mgr, now, env))
    /\ UNCHANGED lw_pc

\* ---------------------------------------------------------- the lock watcher
\* still_active of one poll, from the snapshot and the probes.
StillActive(s, env) ==
    IF env.logind = "locked" THEN TRUE
    ELSE IF s.lock_state.process_info THEN env.running
    ELSE IF s.lock_state.command # NoCmd THEN env.running
    ELSE TRUE

\* One poll of the watch loop that finds the lock gone; the Manager mutex is
\* not held across the probe.
LockWatcherPoll ==
    /\ lw_pc = "watch"
    /\ mgr.lock_state.is_locked
    /\ \E env \in RunEnv : ~StillActive(mgr, env)
    /\ lw_pc' = "ended"
    /\ UNCHANGED << mgr, now, started, ipc, sd, media, idle >>

\* The first LockScreen action over default, ac, battery, as 0 or 1 actions.
FirstLockAction(s) ==
    LET locks == SelectSeq(s.actions.default \o s.actions.ac \o s.actions.battery,
                           LAMBDA a : a.kind = "LockScreen")
    IN  IF locks = << >> THEN << >> ELSE << Head(locks) >>

\* The unlock transition, under the mutex.
LockEnded(s, t, env) ==
    LET lock == FirstLockAction(s)
        s1 == IF lock # << >> /\ lock[1].resume_command # NoCmd
              THEN Spawn(s, lock[1].resume_command) ELSE s
        s2 == [s1 EXCEPT !.lock_state.process_info = FALSE,
                         !.lock_state.post_advanced = FALSE,
                         !.action_index = 0,
                         !.lock_state.is_locked = FALSE]
    IN  IF ~s.lock_state.is_locked THEN s ELSE Reset(s2, t, env)

LockWatcherUnlock ==
    /\ lw_pc = "ended"
    /\ lw_pc' = "watch"
    /\ \E env \in ResetEnv(FALSE) : Handle(LockEnded(mgr, now, env))

Next ==
    \/ Startup
    \/ Tick
    \/ ACConnected
    \/ ACDisconnected
    \/ InputActivity
    \/ Suspend
    \/ ResumeEvent
    \/ Wake
    \/ LockScreenDetected
    \/ MediaPlaybackActive
    \/ MediaPlaybackEnded
    \/ LidClosed
    \/ LidOpened
    \/ LoginctlLock
    \/ LoginctlUnlock
    \/ IncrInhibitor
    \/ DecrInhibitor
    \/ PauseCmd
    \/ ResumeCmd
    \/ ToggleInhibit
    \/ TriggerAll
    \/ TriggerByName
    \/ Reload
    \/ WaylandIdled
    \/ WaylandResumed
    \/ IdleCheck
    \/ LockWatcherPoll
    \/ LockWatcherUnlock

Spec == Init /\ [][Next]_vars

\* ------------------------------------------------------------------ claims
\* What a handler would do in the current state is read off by applying its
\* operator to mgr, so a property of a handler is a property of every
\* reachable state.

C2_InhibitorHoldsScheduler ==
    (started /\ mgr.active_inhibitor_count > 0)
        => \A env \in RunEnv : CheckTimeouts(mgr, now, env).fired = << >>

\* C3: while paused or manually_paused is true, check_timeouts fires no
\* action and changes neither action_index nor any last_triggered (it
\* leaves the whole Manager as it is), called by the idle loop or directly
\* by the compositor's Idled event.
C3_PausedSchedulerIsInert ==
    (mgr.paused \/ mgr.manually_paused)
        => \A env \in RunEnv : /\ CheckTimeouts(mgr, now, env) = mgr
                               /\ IdleCheckBody(mgr, now, env) = mgr

\* The scheduler is gated by the manual flag alone while a stage is due.
C3_ManuallyPausedWhileDue ==
    /\ mgr.manually_paused /\ ~mgr.paused
    /\ \E env \in RunEnv : CheckDue(mgr, now, env).fired # << >>

\* C4: a stage whose last_triggered is t is not fired by the scheduler at
\* any time earlier than t + its timeout; this covers the last stage, on
\* which action_index stays clamped.
C4_NoFireBeforeTimeout ==
    \A env \in RunEnv :
        LET fired == CheckTimeouts(mgr, now, env).fired
        IN  \A i \in 1..Len(fired) :
                fired[i].last_triggered # None
                    => now >= fired[i].last_triggered + fired[i].timeout

\* The last stage fired before, action_index is clamped on it, and the
\* scheduler fires it again.
C4_ClampedStageFiresAgain ==
    \E env \in RunEnv :
        LET fired == CheckTimeouts(mgr, now, env).fired
        IN  /\ fired # << >>
            /\ fired[1].last_triggered # None
            /\ fired[1].timeout > 0
            /\ fired[1].index = Len(mgr.actions[BlockName(mgr)]) - 1
            /\ mgr.action_index = fired[1].index

C6_QueuedExactlyOnce ==
    /\ \A i, j \in 1..Len(mgr.resume_queue) :
          i # j => mgr.resume_queue[i].name # mgr.resume_queue[j].name
    /\ \A i \in 1..Len(mgr.resume_queue) : mgr.resume_queue[i].kind # "LockScreen"

\* C7: reset_on_activity, the inhibitor decrement that reaches 0 and
\* MediaPlaybackEnded each spawn every queued resume_command once, in FIFO
\* order, and leave resume_queue empty.
C7_QueueDrained ==
    LET queued == [i \in 1..Len(mgr.resume_queue) |->
                      mgr.resume_queue[i].resume_command]
        Drains(r) == r.resume_queue = << >> /\ r.spawned = queued
    IN  started =>
            /\ Drains(Resume(mgr, FALSE))
            /\ \A env \in ResetEnv(mgr.lock_state.is_locked) :
                  /\ Drains(Reset(mgr, now, env))
                  /\ mgr.active_inhibitor_count = 1
                        => Drains(DecrActiveInhibitor(mgr, now, env))

C9_InstantNeverStaged ==
    started =>
        \A env \in RunEnv :
            LET fired == CheckTimeouts(mgr, now, env).fired
            IN  \A i \in 1..Len(fired) : fired[i].timeout > 0

\* C10: in every reachable state action_index < len(current block), or the
\* current block is empty.
C10_ActionIndexInBlock ==
    \/ GetActiveActions(mgr) = << >>
    \/ mgr.action_index < Len(GetActiveActions(mgr))

\* C11: from every state, pause(manual = true) followed by resume(manual =
\* true) leaves paused, manually_paused and active_inhibitor_count as they
\* were.
C11_ManualPauseResumeRoundTrip ==
    LET r == Resume(Pause(mgr, TRUE), TRUE)
    IN  /\ r.paused = mgr.paused
        /\ r.manually_paused = mgr.manually_paused
        /\ r.active_inhibitor_count = mgr.active_inhibitor_count

\* The names a block can have.
BlockNames == {"default", "ac", "battery"}

\* The Manager with its pre-warn state set to any value it can hold.
WithNotificationState(s) ==
    {[s EXCEPT !.pending_notification_task = p,
               !.notification_sent_for_action = n] :
        p \in BOOLEAN, n \in {None, 0, 1}}

\* C12: switch_block(X) with X the current block returns false and changes
\* nothing, so a second switch_block(X) is a no-op; with X another block it
\* sets current_block = X, action_index = 0, instants_triggered = false,
\* clears the pending-notification state, changes nothing else and returns
\* true.  update_current_block, the Manager's own switch, is idempotent too.
C12_SwitchBlockIdempotent ==
    /\ \A s \in WithNotificationState(mgr), X \in BlockNames :
          LET r == SwitchBlock(s, X)
              again == SwitchBlock(r.state, X)
          IN  /\ X = s.current_block => (~r.changed /\ r.state = s)
              /\ X # s.current_block =>
                    /\ r.changed
                    /\ r.state = [s EXCEPT !.current_block = X,
                                           !.action_index = 0,
                                           !.instants_triggered = FALSE,
                                           !.pending_notification_task = FALSE,
                                           !.notification_sent_for_action = None]
              /\ ~again.changed /\ again.state = r.state
    /\ UpdateCurrentBlock(UpdateCurrentBlock(mgr)) = UpdateCurrentBlock(mgr)

\* The cursor has advanced and the instant batch has run, so a switch to
\* another block has something to reset.
C12_SwitchWithProgress ==
    /\ mgr.action_index > 0
    /\ mgr.instants_triggered
    /\ \E X \in BlockNames :
          LET r == SwitchBlock(mgr, X)
          IN  /\ r.changed
              /\ r.state.action_index = 0
              /\ ~r.state.instants_triggered
              /\ ~SwitchBlock(r.state, X).changed

\* What C13 compares of two Managers: everything but the last_activity and
\* debounce timestamps and what the handler spawned.
SameUpToTimestamps(a, b) ==
    [a EXCEPT !.last_activity = 0, !.debounce = 0, !.spawned = << >>]
        = [b EXCEPT !.last_activity = 0, !.debounce = 0, !.spawned = << >>]

\* C13: two InputActivity events handled back to back leave the state one
\* InputActivity leaves, up to the last_activity / debounce timestamps, with
\* resume_queue empty and no resume command spawned by the second event.
C13_InputActivityTwiceIsOnce ==
    started =>
        \A env \in ResetEnv(mgr.lock_state.is_locked) :
            LET once == Quiescent(Reset(mgr, now, env))
                twice == Reset(once, now, env)
            IN  /\ SameUpToTimestamps(twice, once)
                /\ twice.resume_queue = << >>
                /\ twice.spawned = << >>

\* Every action of the three blocks, in the order next_action_instant visits
\* them.
AllActions(s) == s.actions["default"] \o s.actions["ac"] \o s.actions["battery"]

\* Manager::next_action_instant: the earliest last + timeout over every
\* action of every block, None while paused or when there is no action.
NextActionInstant(s) ==
    LET all == AllActions(s)
        next_time(i) == LastRef(s, all[i]) + all[i].timeout
    IN  IF TimersPaused(s) \/ all = << >> THEN None
        ELSE CHOOSE m \in {next_time(i) : i \in 1..Len(all)} :
                 \A i \in 1..Len(all) : m <= next_time(i)

\* The sleep_deadline of spawn_idle_task at time t. The 50 ms of an overdue
\* instant are below the resolution of the clock and count as no delay.
SleepDeadline(s, t) ==
    LET instant == NextActionInstant(s)
    IN  IF instant = None THEN t + 60
        ELSE IF instant <= t THEN t
        ELSE IF instant - t > 60 THEN t + 60
        ELSE instant

RECURSIVE IdleTask(_, _, _, _)
\* spawn_idle_task left alone from time t: sleep to the deadline, check the
\* timeouts once, and again, for at most `wakes` wakes; the time of the first
\* wake that fires something and what it fired.
IdleTask(s, t, env, wakes) ==
    LET deadline == SleepDeadline(s, t)
        checked == IdleCheckBody(Quiescent(s), deadline, env)
    IN  IF checked.fired # << >> THEN [at |-> deadline, fired |-> checked.fired]
        ELSE IF wakes = 1 THEN [at |-> None, fired |-> << >>]
        ELSE IdleTask(checked, deadline, env, wakes - 1)

\* C14: with debounce_seconds = 0, after an InputActivity at time T and no
\* further event, debounce <= T and the first stage of the current block
\* fires at T + its timeout, not later.
C14_FirstStageFiresOneTimeoutAfterActivity ==
    (/\ started
     /\ mgr.cfg.debounce_seconds = 0
     /\ ~TimersPaused(mgr)
     /\ ~mgr.lock_state.is_locked
     /\ mgr.action_index = 0
     /\ GetActiveActions(mgr) # << >>
     /\ ~IsInstant(GetActiveActions(mgr)[1]))
    => \A env \in ResetEnv(FALSE) :
           LET after == Reset(mgr, now, env)
               first == IdleTask(after, now, env, 4)
           IN  /\ after.debounce <= now
               /\ first.at = now + GetActiveActions(after)[1].timeout
               /\ first.fired # << >> /\ first.fired[1].index = 0

\* Whether the scheduler owes the stage a pre-warn: notify_before_action is
\* on and the stage carries a notification.
HasPreWarn(s, a) == s.cfg.notify_before_action /\ a.notification # NoCmd

\* C15: when notify_before_action is on and the current stage has a
\* notification, the scheduler sends the pre-warn at base + timeout without
\* firing, and fires the stage only once now >= base + timeout +
\* notify_seconds_before.
C15_PreWarnDelaysFire ==
    (/\ started
     /\ GetActiveActions(mgr) # << >>
     /\ mgr.action_index < Len(GetActiveActions(mgr)))
    => LET stage == GetActiveActions(mgr)[mgr.action_index + 1]
           base == IF mgr.debounce # None /\ now >= mgr.debounce
                   THEN LastRef([mgr EXCEPT !.last_activity = now], stage)
                   ELSE LastRef(mgr, stage)
           original_fire_time == base + stage.timeout
       IN  (HasPreWarn(mgr, stage)
              /\ now < original_fire_time + mgr.cfg.notify_seconds_before)
           => \A env \in RunEnv :
                  LET r == CheckTimeouts(mgr, now, env)
                  IN  /\ r.fired = << >>
                      /\ (now >= original_fire_time /\ ~TimersPaused(mgr)
                              /\ ~(mgr.debounce # None /\ now < mgr.debounce)
                            => r.notification_sent_for_action = mgr.action_index)

\* C16: an InputActivity that arrives after the scheduler's check at
\* original_fire_time (the pre-warn) and before original_fire_time +
\* notify_seconds_before leaves the pre-warn state cleared, action_index 0 and
\* every last_triggered of the block unset, and the next fire is the first
\* stage again, one timeout after the activity.
C16_ActivityDuringPreWarnRestarts ==
    (/\ started
     /\ ~TimersPaused(mgr)
     /\ ~mgr.lock_state.is_locked
     /\ mgr.debounce = None
     /\ mgr.action_index = 0
     /\ GetActiveActions(mgr) # << >>
     /\ HasPreWarn(mgr, GetActiveActions(mgr)[1])
     /\ now = LastRef(mgr, GetActiveActions(mgr)[1]) + GetActiveActions(mgr)[1].timeout)
    => \A env \in ResetEnv(FALSE) :
           LET warned == Quiescent(CheckTimeouts(mgr, now, env))
               after == Reset(warned, now, env)
               block == GetActiveActions(after)
               next == IdleTask(after, now, env, 4)
           IN  /\ ~after.pending_notification_task
               /\ after.notification_sent_for_action = None
               /\ after.action_index = 0
               /\ \A i \in 1..Len(block) : block[i].last_triggered = None
               /\ next.fired # << >> /\ next.fired[1].index = 0
               /\ next.at = now + block[1].timeout

\* C17: on a laptop running the ac block with some stage already fired, an
\* ACDisconnected at time T makes current_block "battery" and action_index 0,
\* re-runs the instant actions, leaves every last_triggered of the battery
\* block unset, and the first battery stage fires at T + its timeout.
C17_ACDisconnectedRestartsOnBattery ==
    (/\ started
     /\ mgr.chassis = "Laptop"
     /\ mgr.current_block = "ac"
     /\ ~TimersPaused(mgr)
     /\ \E i \in 1..Len(mgr.actions["ac"]) : mgr.actions["ac"][i].last_triggered # None)
    => \A env \in RunEnv :
           LET after == ACEvent(mgr, TRUE, env)
               battery == after.actions["battery"]
               next == IdleTask(after, now, env, 4)
           IN  /\ after.current_block = "battery"
               /\ after.action_index = 0
               /\ after.instants_triggered
               /\ \A i \in 1..Len(battery) : battery[i].last_triggered = None
               /\ next.fired # << >> /\ next.fired[1].index = 0
               /\ next.at = now + battery[1].timeout

\* How many times a handler handed cmd to the shell.
SpawnCount(s, cmd) == Cardinality({i \in 1..Len(s.spawned) : s.spawned[i] = cmd})

\* C18: in each lock episode, once the probes have reported the lock gone,
\* the lock watcher's unlock transition spawns the lock action's
\* resume_command exactly once, sets is_locked = false and action_index = 0,
\* clears process_info and resets; a second transition does nothing, whatever
\* events were handled between the poll and the transition.
C18_ResumeCommandOncePerLockEpisode ==
    (started /\ lw_pc = "ended")
    => \A env \in ResetEnv(FALSE) :
           LET lock == FirstLockAction(mgr)
               ended == LockEnded(mgr, now, env)
           IN  /\ (lock # << >> /\ lock[1].resume_command # NoCmd)
                     => SpawnCount(ended, lock[1].resume_command) = 1
               /\ ~ended.lock_state.is_locked
               /\ ~ended.lock_state.process_info
               /\ ended.action_index = 0
               /\ ended.debounce = now + ended.cfg.debounce_seconds
               /\ LockEnded(Quiescent(ended), now, env) = Quiescent(ended)

\* ------------------------------------------------------------ media sources
\* MediaBridgeState::activate: the bridge as the browser monitor starts it.
Activate == [active |-> TRUE, browser_playing |-> FALSE, playing_tab_count |-> 0]

\* MediaBridgeState::default.
InactiveBridge == [active |-> FALSE, browser_playing |-> FALSE, playing_tab_count |-> 0]

\* update_playing_state counting the browser as one source, whatever the
\* number of playing tabs.
UpdatePlayingStatePerBrowser(bridge, tab_count) ==
    [bridge |-> [bridge EXCEPT !.playing_tab_count = tab_count,
                               !.browser_playing = tab_count > 0],
     delta |-> (IF tab_count > 0 THEN 1 ELSE 0)
                  - (IF bridge.playing_tab_count > 0 THEN 1 ELSE 0)]

\* MediaBridgeState::update_playing_state: the bridge it leaves and the delta
\* it returns.
UpdatePlayingState(bridge, tab_count) ==
    [bridge |-> [bridge EXCEPT !.playing_tab_count = tab_count,
                               !.browser_playing = tab_count > 0],
     delta |-> tab_count - bridge.playing_tab_count]

RECURSIVE IncrTimes(_, _)
\* for _ in 0..n { incr_active_inhibitor }
IncrTimes(s, n) == IF n = 0 THEN s ELSE IncrTimes(IncrActiveInhibitor(s), n - 1)

RECURSIVE DecrTimes(_, _, _, _)
\* for _ in 0..n { decr_active_inhibitor }
DecrTimes(s, n, t, env) ==
    IF n = 0 THEN s ELSE DecrTimes(DecrActiveInhibitor(s, t, env), n - 1, t, env)

\* The Manager with the media flags the two monitors keep beside it; x.m is
\* the Manager of the scheduler.
MprisPlaying(s) ==
    [m |-> s, media_playing |-> TRUE, browser_media_playing |-> FALSE,
     bridge |-> InactiveBridge]

\* The MPRIS -> bridge handoff of spawn_media_monitor_dbus, then
\* spawn_browser_media_monitor activating the bridge.
MprisToBridgeHandoff(x, t, env) ==
    LET cleared == IF x.media_playing /\ ~x.browser_media_playing
                   THEN [x EXCEPT !.m = DecrActiveInhibitor(x.m, t, env),
                                  !.media_playing = FALSE]
                   ELSE x
    IN  [cleared EXCEPT !.bridge = Activate]

\* handle_browser_media_state for a bridge report of tab_count playing tabs.
HandleBrowserMediaState(x, tab_count, t, env) ==
    LET u == UpdatePlayingState(x.bridge, tab_count)
    IN  IF u.delta > 0
        THEN [x EXCEPT !.bridge = u.bridge,
                       !.m = IncrTimes(x.m, u.delta),
                       !.media_playing = TRUE]
        ELSE IF u.delta < 0
        THEN [x EXCEPT !.bridge = u.bridge,
                       !.m = DecrTimes(x.m, 0 - u.delta, t, env),
                       !.media_playing = IF u.bridge.playing_tab_count = 0
                                         THEN FALSE ELSE @]
        ELSE [x EXCEPT !.bridge = u.bridge]

\* The Manager at rest between two handlers of the media monitors.
Settled(x) == [x EXCEPT !.m = Quiescent(x.m)]

\* The handoff of S5 from a Manager whose one inhibitor is MPRIS's: the
\* bridge takes over, reports two playing tabs, then one, then none.  The
\* states after each of the four handlers, the first three at rest.
MediaHandoff(s, t, env) ==
    LET taken == Settled(MprisToBridgeHandoff(MprisPlaying(s), t, env))
        two == Settled(HandleBrowserMediaState(taken, 2, t, env))
        one == Settled(HandleBrowserMediaState(two, 1, t, env))
        none == HandleBrowserMediaState(one, 0, t, env)
    IN  [taken |-> taken, two |-> two, one |-> one, none |-> none]

\* The inhibitor counts of C19 along the handoff: MPRIS's inhibitor is
\* decremented once, the bridge holds one per playing tab, each tab that
\* stops decrements by one, the last one reaches 0.
HandoffCounts(h) ==
    /\ h.taken.m.active_inhibitor_count = 0 /\ ~h.taken.media_playing
    /\ h.two.m.active_inhibitor_count = 2
    /\ h.one.m.active_inhibitor_count = 1
    /\ h.none.m.active_inhibitor_count = 0 /\ ~h.none.media_playing

\* C19 as stated: across the handoff the count tracks the source, paused
\* stays true while the count is >= 1, and when the last tab stops paused is
\* false and the resume queue is drained.
C19_HandoffTracksCountAndPause ==
    (started /\ mgr.active_inhibitor_count = 1)
    => \A env \in ResetEnv(mgr.lock_state.is_locked) :
           LET h == MediaHandoff(mgr, now, env)
           IN  /\ HandoffCounts(h)
               /\ h.two.m.paused /\ h.one.m.paused
               /\ ~h.none.m.paused
               /\ h.none.m.resume_queue = << >>

\* C19 amended: the counts are as stated in every case; paused follows the
\* count and the resume queue is drained provided the user has not paused
\* manually; under a manual pause paused stays false throughout and the
\* resume queue is kept as it was.
C19_HandoffTracksCountUnlessManual ==
    (started /\ mgr.active_inhibitor_count = 1)
    => \A env \in ResetEnv(mgr.lock_state.is_locked) :
           LET h == MediaHandoff(mgr, now, env)
           IN  /\ HandoffCounts(h)
               /\ ~h.none.m.paused
               /\ ~mgr.manually_paused
                     => /\ h.two.m.paused /\ h.one.m.paused
                        /\ h.taken.m.resume_queue = << >>
                        /\ h.none.m.resume_queue = << >>
               /\ mgr.manually_paused
                     => /\ ~h.two.m.paused /\ ~h.one.m.paused
                        /\ h.none.m.resume_queue = mgr.resume_queue

\* C19's case: MPRIS alone holds the scheduler with resume commands queued;
\* the handoff releases it, two tabs take it and hand it back one by one.
C19_HandoffWithQueuedResume ==
    /\ started /\ mgr.active_inhibitor_count = 1
    /\ mgr.paused /\ ~mgr.manually_paused
    /\ mgr.resume_queue # << >>
    /\ \E env \in ResetEnv(mgr.lock_state.is_locked) :
           LET h == MediaHandoff(mgr, now, env)
           IN  /\ HandoffCounts(h)
               /\ h.two.m.paused /\ h.one.m.paused /\ ~h.none.m.paused
               /\ h.none.m.resume_queue = << >>

\* The commands of the actions of seq that are not the lock, in block order.
NonLockCommands(seq) ==
    LET others == SelectSeq(seq, LAMBDA a : a.kind # "LockScreen")
    IN  [i \in 1..Len(others) |-> others[i].command]

\* C20: IPC `trigger all` runs every action of the active block in block
\* order, sets last_triggered = now on every action of the block and
\* action_index = len - 1; a following InputActivity, while unlocked, clears
\* last_triggered on all non-instant stages and sets action_index = 0.
C20_TriggerAllThenActivity ==
    (started /\ mgr.actions[BlockName(mgr)] # << >>)
    => \A env \in RunEnv :
           LET all == TriggerAllIdleActions(mgr, now, env)
               block == all.actions[BlockName(mgr)]
               ran == SelectSeq(all.spawned,
                                LAMBDA c : \E i \in 1..Len(block) :
                                    block[i].kind # "LockScreen" /\ block[i].command = c)
           IN  /\ ran = NonLockCommands(block)
               /\ \A i \in 1..Len(block) : block[i].last_triggered = now
               /\ all.action_index = Len(block) - 1
               /\ ~all.lock_state.is_locked
                     => \A again \in ResetEnv(FALSE) :
                            LET after == Reset(Quiescent(all), now, again)
                                stages == after.actions[BlockName(mgr)]
                            IN  /\ \A i \in 1..Len(stages) :
                                       ~IsInstant(stages[i])
                                           => stages[i].last_triggered = None
                                /\ after.action_index = 0

\* ------------------------------------------------- the IPC `info` connection
\* max_retries of the info handler.
MaxRetries == 5

\* A Mutex::lock().await that parks the caller until the mutex is free.
LockAwait(m) == IF m = "free" THEN "Ok" ELSE "Parked"

\* tokio's Mutex::try_lock: Ok with the guard when the mutex is free, Err at
\* once when it is held.
TryLock(m) == IF m = "free" THEN "Ok" ELSE "Err"

\* The Manager right after run_daemon's startup sequence.
Started(c, on_ac, env) ==
    Quiescent(TriggerInstantActions(SetOnBattery(New(c, 0), ~on_ac), env))

InitInfo ==
    /\ \E c \in Configs, on_ac \in BOOLEAN, env \in RunEnv : mgr = Started(c, on_ac, env)
    /\ now = 0
    /\ started = TRUE
    /\ lw_pc = "watch"
    /\ ipc = IpcIdle
    /\ sd = SdRunning
    /\ media = MediaIdle
    /\ idle = IdleParked

\* The scheduler or a handler takes the Manager mutex with lock().await.
TaskLock ==
    /\ LockAwait(ipc.mutex) = "Ok"
    /\ ipc' = [ipc EXCEPT !.mutex = "task"]
    /\ UNCHANGED << mgr, now, started, lw_pc, sd, media, idle >>

\* What the holder does to the Manager while it holds the mutex: the IPC
\* pause / resume commands and the Suspend / Resume events.
TaskWork ==
    /\ ipc.mutex = "task"
    /\ \E manual \in BOOLEAN : mgr' \in {Pause(mgr, manual), Resume(mgr, manual)}
    /\ mgr' # mgr
    /\ UNCHANGED << now, started, lw_pc, ipc, sd, media, idle >>

TaskUnlock ==
    /\ ipc.mutex = "task"
    /\ ipc' = [ipc EXCEPT !.mutex = "free"]
    /\ UNCHANGED << mgr, now, started, lw_pc, sd, media, idle >>

\* The app-inhibit poller takes its own mutex, for the probe or on the way to
\* the Manager.
PollerLockApp ==
    /\ LockAwait(ipc.app_mutex) = "Ok"
    /\ ipc' = [ipc EXCEPT !.app_mutex = "poller"]
    /\ UNCHANGED << mgr, now, started, lw_pc, sd, media, idle >>

\* The end of the probe block: the guard is dropped.
PollerUnlockApp ==
    /\ ipc.app_mutex = "poller"
    /\ ipc' = [ipc EXCEPT !.app_mutex = "free"]
    /\ UNCHANGED << mgr, now, started, lw_pc, sd, media, idle >>

\* The poller, holding its mutex, takes the Manager mutex, registers or
\* removes its inhibitor and drops both guards.
PollerUpdate ==
    /\ ipc.app_mutex = "poller"
    /\ LockAwait(ipc.mutex) = "Ok"
    /\ \/ /\ mgr.active_inhibitor_count = 0
          /\ mgr' = IncrActiveInhibitor(mgr)
       \/ /\ mgr.active_inhibitor_count > 0
          /\ \E env \in ResetEnv(mgr.lock_state.is_locked) :
                 mgr' = Quiescent(DecrActiveInhibitor(mgr, now, env))
    /\ ipc' = [ipc EXCEPT !.app_mutex = "free"]
    /\ UNCHANGED << now, started, lw_pc, sd, media, idle >>

\* A client sends `info`.
InfoRequest ==
    /\ ipc.pc = "accept"
    /\ ipc' = [ipc EXCEPT !.pc = "try", !.retry_count = 0, !.slept = 0,
                          !.response = "none"]
    /\ UNCHANGED << mgr, now, started, lw_pc, sd, media, idle >>

\* manager.try_lock() answers Ok(mgr).
InfoTryLockOk ==
    /\ ipc.pc = "try"
    /\ TryLock(ipc.mutex) = "Ok"
    /\ ipc' = [ipc EXCEPT !.mutex = "info", !.pc = "read"]
    /\ UNCHANGED << mgr, now, started, lw_pc, sd, media, idle >>

\* manager.try_lock() answers Err: count the retry, give up with the busy
\* response at max_retries, else go to sleep for 20 ms.
InfoTryLockErr ==
    /\ ipc.pc = "try"
    /\ TryLock(ipc.mutex) = "Err"
    /\ LET retry_count == ipc.retry_count + 1
       IN  ipc' = IF retry_count >= MaxRetries
                  THEN [ipc EXCEPT !.retry_count = retry_count,
                                   !.pc = "accept", !.response = "busy"]
                  ELSE [ipc EXCEPT !.retry_count = retry_count, !.pc = "sleep"]
    /\ UNCHANGED << mgr, now, started, lw_pc, sd, media, idle >>

\* The 20 ms sleep ends.
InfoSleepEnds ==
    /\ ipc.pc = "sleep"
    /\ ipc' = [ipc EXCEPT !.pc = "try", !.slept = @ + 1]
    /\ UNCHANGED << mgr, now, started, lw_pc, sd, media, idle >>

\* The fields are copied out of the guard and the guard is dropped.
InfoDropManager ==
    /\ ipc.pc = "read"
    /\ ipc' = [ipc EXCEPT !.mutex = "free", !.pc = "app"]
    /\ UNCHANGED << mgr, now, started, lw_pc, sd, media, idle >>

\* app_inhibitor.lock().await succeeds inside the 100 ms timeout.
InfoAppLock ==
    /\ ipc.pc = "app"
    /\ LockAwait(ipc.app_mutex) = "Ok"
    /\ ipc' = [ipc EXCEPT !.app_mutex = "info", !.pc = "probe"]
    /\ UNCHANGED << mgr, now, started, lw_pc, sd, media, idle >>

\* is_any_app_running answers and the guard is dropped.
InfoAppDone ==
    /\ ipc.pc = "probe"
    /\ ipc' = [ipc EXCEPT !.app_mutex = "free", !.pc = "reply"]
    /\ UNCHANGED << mgr, now, started, lw_pc, sd, media, idle >>

\* The 100 ms timeout fires: the future is dropped, with the guard if it
\* held one, and app_blocking is taken as false.
InfoAppTimeout ==
    /\ ipc.pc \in {"app", "probe"}
    /\ ipc' = [ipc EXCEPT !.app_mutex = IF @ = "info" THEN "free" ELSE @,
                          !.pc = "reply"]
    /\ UNCHANGED << mgr, now, started, lw_pc, sd, media, idle >>

\* The response is written to the socket.
InfoReply ==
    /\ ipc.pc = "reply"
    /\ ipc' = [ipc EXCEPT !.pc = "accept", !.response = "info"]
    /\ UNCHANGED << mgr, now, started, lw_pc, sd, media, idle >>

\* The steps of the info handler once the request is read.
InfoStep ==
    \/ InfoTryLockOk
    \/ InfoTryLockErr
    \/ InfoSleepEnds
    \/ InfoDropManager
    \/ InfoAppLock
    \/ InfoAppDone
    \/ InfoAppTimeout
    \/ InfoReply

NextInfo ==
    \/ TaskLock
    \/ TaskWork
    \/ TaskUnlock
    \/ PollerLockApp
    \/ PollerUnlockApp
    \/ PollerUpdate
    \/ InfoRequest
    \/ InfoStep

\* The info handler is a task of its own that the runtime keeps polling and
\* whose timers fire; nothing is assumed of the holders of the two mutexes.
SpecInfo == InitInfo /\ [][NextInfo]_vars /\ WF_vars(InfoStep)

\* What C21 says of every state: at most max_retries failed attempts and one
\* sleep fewer, the busy response only after max_retries failures, and never
\* both mutexes held by the handler.
InfoBounded ==
    /\ ipc.retry_count <= MaxRetries
    /\ ipc.slept <= MaxRetries - 1
    /\ ipc.slept <= ipc.retry_count
    /\ ipc.response = "busy" => ipc.retry_count = MaxRetries
    /\ ~(ipc.mutex = "info" /\ ipc.app_mutex = "info")
    /\ ipc.pc \in {"app", "probe", "reply"} => ipc.mutex # "info"

\* C21: the `info` handler only try_locks the Manager mutex, gives up after
\* at most 5 failed attempts with the busy response, never modifies
\* ManagerState, drops the Manager guard before it takes the app-inhibitor
\* mutex, and so answers every request however long the Manager mutex or the
\* app-inhibitor mutex is held by others.
C21_InfoNeverBlocksOnManager ==
    /\ []InfoBounded
    /\ [][InfoStep => mgr' = mgr]_vars
    /\ (ipc.pc # "accept") ~> (ipc.pc = "accept")

\* C21's case: the handler gave up with the busy response after 5 failed
\* attempts while another task still holds the Manager mutex.
C21_BusyWhileManagerHeld ==
    /\ ipc.response = "busy" /\ ipc.pc = "accept"
    /\ ipc.retry_count = MaxRetries /\ ipc.slept = MaxRetries - 1
    /\ ipc.mutex = "task"

\* ======================================================================
\* Shutdown (Manager::shutdown, the tasks' wait loops)
\* ======================================================================
\* A second small system: three long-running tasks, each either parked on
\* its wait, at work (queued for or holding the Manager mutex), or exited,
\* and the caller of Manager::shutdown, which holds the Manager mutex from
\* notify_waiters until the stored handles are aborted.

\* The tasks whose wait is a select! with a shutdown.notified() arm.
RacesShutdown == {"idle", "lock"}

\* The tasks whose JoinHandle the Manager stores and shutdown aborts.
StoredHandles == {"idle", "lock"}

InitShutdown ==
    /\ \E c \in Configs, on_ac \in BOOLEAN, env \in RunEnv : mgr = Started(c, on_ac, env)
    /\ now = 0
    /\ started = TRUE
    /\ lw_pc = "watch"
    /\ ipc = IpcIdle
    /\ sd = SdRunning
    /\ media = MediaIdle
    /\ idle = IdleParked

SdTick ==
    /\ now < MaxTime
    /\ now' = now + 1
    /\ UNCHANGED << mgr, started, lw_pc, ipc, sd, media, idle >>

\* A task's timer arm wins its wait: sleep_until, the 500 ms sleep, or
\* ticker.tick().
WaitEnds ==
    /\ \E t \in Tasks :
          /\ sd.pc[t] = "parked"
          /\ t \notin sd.notified
          /\ sd' = [sd EXCEPT !.pc[t] = "work"]
    /\ UNCHANGED << mgr, now, started, lw_pc, ipc, media, idle >>

\* notify_waiters woke the Notified future of a parked task: its shutdown
\* arm breaks the loop.
SeesShutdown ==
    /\ \E t \in RacesShutdown :
          /\ sd.pc[t] = "parked"
          /\ t \in sd.notified
          /\ sd' = [sd EXCEPT !.pc[t] = "exited"]
    /\ UNCHANGED << mgr, now, started, lw_pc, ipc, media, idle >>

\* run_action of a Suspend stage with a pre_suspend_command configured: the
\* command is spawned and the task sleeps 500 ms before the suspend command.
SuspendWaits(s, r) ==
    /\ r.fired # << >>
    /\ r.fired[1].kind = "Suspend"
    /\ s.cfg.pre_suspend_command # NoCmd

\* The scheduler takes the mutex and runs check_timeouts; it parks again when
\* that returns, which for a Suspend stage with a pre_suspend_command is
\* after the 500 ms sleep inside run_action, the guard still held.
IdleChecks ==
    /\ sd.pc["idle"] = "work"
    /\ sd.mutex = "free"
    /\ \E env \in RunEnv :
          LET r == IdleCheckBody(mgr, now, env)
          IN  /\ mgr' = Quiescent(r)
              /\ sd' = IF SuspendWaits(mgr, r)
                       THEN [sd EXCEPT !.pc["idle"] = "sleep", !.mutex = "idle",
                                       !.wait = "pre_suspend_delay"]
                       ELSE [sd EXCEPT !.pc["idle"] = "parked"]
    /\ UNCHANGED << now, started, lw_pc, ipc, media, idle >>

\* The 500 ms are over: the suspend command is spawned, check_timeouts
\* returns and the scheduler drops the guard.
PreSuspendWaitEnds ==
    /\ sd.pc["idle"] = "sleep"
    /\ sd' = [sd EXCEPT !.pc["idle"] = "parked", !.mutex = "free", !.wait = "none"]
    /\ UNCHANGED << mgr, now, started, lw_pc, ipc, media, idle >>

\* `trigger pre_suspend` over IPC: trigger_action_by_name takes the mutex and
\* trigger_pre_suspend awaits run_command_silent, which returns when the
\* command has exited (or after 30 s).
TriggerPreSuspendBegins ==
    /\ sd.phase = "running"
    /\ sd.mutex = "free"
    /\ mgr.cfg.pre_suspend_command # NoCmd
    /\ sd' = [sd EXCEPT !.mutex = "ipc", !.wait = "pre_suspend_command"]
    /\ UNCHANGED << mgr, now, started, lw_pc, ipc, media, idle >>

\* The command has exited: trigger_action_by_name returns and drops the guard.
TriggerPreSuspendReturns ==
    /\ sd.mutex = "ipc"
    /\ sd' = [sd EXCEPT !.mutex = "free", !.wait = "none"]
    /\ UNCHANGED << mgr, now, started, lw_pc, ipc, media, idle >>

\* The lock supervisor polls; when the lock is gone it takes the mutex and
\* performs the unlock transition; then it parks again.
LockWatcherPolls ==
    /\ sd.pc["lock"] = "work"
    /\ sd.mutex = "free"
    /\ \E env \in RunEnv :
          mgr' = IF mgr.lock_state.is_locked /\ ~StillActive(mgr, env)
                 THEN Quiescent(LockEnded(mgr, now, env))
                 ELSE mgr
    /\ sd' = [sd EXCEPT !.pc["lock"] = "parked"]
    /\ UNCHANGED << now, started, lw_pc, ipc, media, idle >>

\* The AC/battery poller takes the mutex to ask is_laptop, probes, and on a
\* flip sends ACConnected or ACDisconnected; then it waits for the next tick.
PowerPolls ==
    /\ sd.pc["power"] = "work"
    /\ sd.mutex = "free"
    /\ \E flipped \in BOOLEAN, env \in RunEnv :
          mgr' = IF mgr.chassis = "Laptop" /\ flipped
                 THEN Quiescent(ACEvent(mgr, ~mgr.on_battery, env))
                 ELSE mgr
    /\ sd' = [sd EXCEPT !.pc["power"] = "parked"]
    /\ UNCHANGED << now, started, lw_pc, ipc, media, idle >>

\* manager.lock().await.shutdown(): under the mutex, notify_waiters wakes
\* the Notified futures that exist now, those of the tasks parked on a wait
\* with a shutdown arm, and stores no permit for anyone else.
ShutdownSignals ==
    /\ sd.phase = "running"
    /\ sd.mutex = "free"
    /\ sd' = [sd EXCEPT !.phase = "signalled", !.mutex = "shutdown",
                        !.wait = "shutdown_delay",
                        !.notified = {t \in RacesShutdown : sd.pc[t] = "parked"}]
    /\ UNCHANGED << mgr, now, started, lw_pc, ipc, media, idle >>

\* After the 200 ms sleep, still under the mutex: the stored handles are
\* aborted; shutdown returns and its caller drops the guard.
ShutdownAborts ==
    /\ sd.phase = "signalled"
    /\ sd' = [sd EXCEPT !.phase = "done", !.mutex = "free", !.wait = "none",
                        !.pc = [t \in Tasks |->
                                  IF t \in StoredHandles THEN "exited" ELSE sd.pc[t]]]
    /\ UNCHANGED << mgr, now, started, lw_pc, ipc, media, idle >>

NextShutdown ==
    \/ SdTick
    \/ WaitEnds
    \/ SeesShutdown
    \/ IdleChecks
    \/ LockWatcherPolls
    \/ PowerPolls
    \/ PreSuspendWaitEnds
    \/ TriggerPreSuspendBegins
    \/ TriggerPreSuspendReturns
    \/ ShutdownSignals
    \/ ShutdownAborts

SpecShutdown == InitShutdown /\ [][NextShutdown]_vars

\* C22: shutdown is cooperative and complete: once notify_waiters was called,
\* every long-running task parked on its wait has been woken by it or has
\* left, and when Manager::shutdown has returned every long-running task has
\* terminated (so the scheduler fires nothing more), also a task that was
\* not parked when notify_waiters was called.
C22_ShutdownCooperativeAndComplete ==
    /\ sd.phase = "signalled" =>
          \A t \in Tasks : sd.pc[t] = "parked" => t \in sd.notified
    /\ sd.phase = "done" => \A t \in Tasks : sd.pc[t] = "exited"

\* The part of C22 about the scheduler and the lock supervisor alone.
C22_StoredTasksTerminate ==
    /\ sd.phase = "done" => \A t \in StoredHandles : sd.pc[t] = "exited"
    /\ sd.phase # "running" => \A t \in RacesShutdown : sd.pc[t] # "work" \/ sd.mutex = "shutdown"

\* ======================================================================
\* `pause <duration>` (parse_duration, pause_for_duration)
\* ======================================================================
\* Text is a sequence of one-character strings. A u64 is four limbs of 16
\* bits, least significant first, so that products, sums and their overflow
\* are those of 64-bit arithmetic.
MaxLen == 3

Base == 256 * 256

U64Zero == << 0, 0, 0, 0 >>

\* x * k + d in 64 bits, with the carry out of the top limb.
MulAdd(x, k, d) ==
    LET t0 == x[1] * k + d
        t1 == x[2] * k + (t0 \div Base)
        t2 == x[3] * k + (t1 \div Base)
        t3 == x[4] * k + (t2 \div Base)
    IN  [val |-> << t0 % Base, t1 % Base, t2 % Base, t3 % Base >>,
         overflow |-> t3 \div Base > 0]

\* a + b in 64 bits, with the carry out of the top limb.
AddU64(a, b) ==
    LET t0 == a[1] + b[1]
        t1 == a[2] + b[2] + (t0 \div Base)
        t2 == a[3] + b[3] + (t1 \div Base)
        t3 == a[4] + b[4] + (t2 \div Base)
    IN  [val |-> << t0 % Base, t1 % Base, t2 % Base, t3 % Base >>,
         overflow |-> t3 \div Base > 0]

\* x / k and x % k for a small k.
DivSmall(x, k) ==
    LET c3 == x[4]
        c2 == (c3 % k) * Base + x[3]
        c1 == (c2 % k) * Base + x[2]
        c0 == (c1 % k) * Base + x[1]
    IN  [q |-> << c0 \div k, c1 \div k, c2 \div k, c3 \div k >>, r |-> c0 % k]

Digits == << "0", "1", "2", "3", "4", "5", "6", "7", "8", "9" >>

IsAsciiDigit(c) == \E i \in 1..10 : Digits[i] = c

DigitValue(c) == (CHOOSE i \in 1..10 : Digits[i] = c) - 1

IsWhitespace(c) == c \in {" ", "\t"}

\* to_lowercase / eq_ignore_ascii_case on the letters that occur.
ToLowercase(c) ==
    CASE c = "H" -> "h" [] c = "E" -> "e" [] c = "L" -> "l" [] c = "P" -> "p"
      [] c = "M" -> "m" [] c = "S" -> "s" [] OTHER -> c

LowerAll(s) == [i \in 1..Len(s) |-> ToLowercase(s[i])]

\* str::parse::<u64> on a run of ASCII digits: checked at every digit.
RECURSIVE ParseU64(_, _)
ParseU64(digits, acc) ==
    IF digits = << >> THEN [ok |-> TRUE, val |-> acc]
    ELSE LET next == MulAdd(acc, 10, DigitValue(Head(digits)))
         IN  IF next.overflow THEN [ok |-> FALSE, val |-> U64Zero]
             ELSE ParseU64(Tail(digits), next.val)

\* The decimal text of a u64, as format!("{}") writes it.
RECURSIVE Decimal(_)
Decimal(x) ==
    LET d == DivSmall(x, 10)
    IN  IF d.q = U64Zero THEN << Digits[d.r + 1] >>
        ELSE Decimal(d.q) \o << Digits[d.r + 1] >>

\* str::trim
RECURSIVE Trim(_)
Trim(s) ==
    IF s = << >> THEN s
    ELSE IF IsWhitespace(Head(s)) THEN Trim(Tail(s))
    ELSE IF IsWhitespace(s[Len(s)]) THEN Trim(SubSeq(s, 1, Len(s) - 1))
    ELSE s

\* str::split_whitespace: the maximal runs of non-whitespace, in order.
RECURSIVE SplitWhitespace(_, _)
SplitWhitespace(s, word) ==
    IF s = << >> THEN (IF word = << >> THEN << >> ELSE << word >>)
    ELSE IF IsWhitespace(Head(s))
         THEN (IF word = << >> THEN << >> ELSE << word >>) \o SplitWhitespace(Tail(s), << >>)
         ELSE SplitWhitespace(Tail(s), Append(word, Head(s)))

\* The position of the first character that is no digit, 0 when all are.
SplitPos(part) ==
    IF \A i \in 1..Len(part) : IsAsciiDigit(part[i]) THEN 0
    ELSE CHOOSE i \in 1..Len(part) :
            ~IsAsciiDigit(part[i]) /\ \A j \in 1..(i - 1) : IsAsciiDigit(part[j])

UnitsSeconds == {<< "s" >>,
                 << "s", "e", "c" >>,
                 << "s", "e", "c", "s" >>,
                 << "s", "e", "c", "o", "n", "d" >>,
                 << "s", "e", "c", "o", "n", "d", "s" >>}

UnitsMinutes == {<< "m" >>,
                 << "m", "i", "n" >>,
                 << "m", "i", "n", "s" >>,
                 << "m", "i", "n", "u", "t", "e" >>,
                 << "m", "i", "n", "u", "t", "e", "s" >>}

UnitsHours == {<< "h" >>,
               << "h", "r" >>,
               << "h", "r", "s" >>,
               << "h", "o", "u", "r" >>,
               << "h", "o", "u", "r", "s" >>}

\* The multiplier of a lower-cased unit, 0 for an unknown one.
Multiplier(unit) ==
    IF unit \in UnitsSeconds THEN 1
    ELSE IF unit \in UnitsMinutes THEN 60
    ELSE IF unit \in UnitsHours THEN 3600
    ELSE 0

HelpWords == {<< "-", "h" >>,
     << "-", "-", "h", "e", "l", "p" >>}

\* The loop over the tokens. `checked` is the build's overflow-checks
\* setting: an overflowing product or sum panics when it is on and wraps
\* when it is off.
RECURSIVE SumParts(_, _, _)
SumParts(parts, total_secs, checked) ==
    IF parts = << >>
    THEN (IF total_secs = U64Zero THEN [kind |-> "Err", why |-> "zero"]
          ELSE [kind |-> "Ok", secs |-> total_secs])
    ELSE LET part == Head(parts)
             split_pos == SplitPos(part)
             num == ParseU64(SubSeq(part, 1, split_pos - 1), U64Zero)
             multiplier == Multiplier(LowerAll(SubSeq(part, split_pos, Len(part))))
             product == MulAdd(num.val, multiplier, 0)
             sum == AddU64(total_secs, product.val)
         IN  IF split_pos = 0 THEN [kind |-> "Err", why |-> "missing unit"]
             ELSE IF split_pos = 1 \/ ~num.ok THEN [kind |-> "Err", why |-> "invalid number"]
             ELSE IF multiplier = 0 THEN [kind |-> "Err", why |-> "unknown unit"]
             ELSE IF checked /\ (product.overflow \/ sum.overflow) THEN [kind |-> "Panic"]
             ELSE SumParts(Tail(parts), sum.val, checked)

parse_duration(s, checked) ==
    IF LowerAll(Trim(s)) = << "h", "e", "l", "p" >> \/ Trim(s) \in HelpWords
    THEN [kind |-> "Err", why |-> "help"]
    ELSE SumParts(SplitWhitespace(s, << >>), U64Zero, checked)

\* time_str of pause_for_duration.
TimeStr(secs) ==
    LET hours == DivSmall(secs, 3600).q
        mins == DivSmall(<< DivSmall(secs, 3600).r, 0, 0, 0 >>, 60).q
        remaining_secs == << DivSmall(secs, 60).r, 0, 0, 0 >>
        h == Decimal(hours) \o << "h" >>
        m == Decimal(mins) \o << "m" >>
        sec == Decimal(remaining_secs) \o << "s" >>
        sp == << " " >>
        H == hours # U64Zero
        M == mins # U64Zero
        R == remaining_secs # U64Zero
    IN  IF H /\ M /\ R THEN h \o sp \o m \o sp \o sec
        ELSE IF H /\ M THEN h \o sp \o m
        ELSE IF H /\ R THEN h \o sp \o sec
        ELSE IF M /\ R THEN m \o sp \o sec
        ELSE IF H THEN h
        ELSE IF M THEN m
        ELSE sec

\* The characters short inputs are made of.
Alphabet == {"0", "1", "9", "h", "m", "s", "x", " "}

RECURSIVE TextsUpTo(_)
TextsUpTo(n) ==
    IF n = 0 THEN {<< >>}
    ELSE LET shorter == TextsUpTo(n - 1)
         IN  shorter \cup {Append(s, c) : s \in shorter, c \in Alphabet}

\* Longer inputs: those of the repository's tests, the spellings of the
\* units, and numbers at the edge of 64 bits.
LongTexts == 
    {<< "h", "e", "l", "p" >>,
     << "H", "E", "L", "P" >>,
     << "H", "e", "l", "p" >>,
     << " ", "h", "e", "l", "p", " " >>,
     << "-", "h" >>,
     << "-", "-", "h", "e", "l", "p" >>,
     << "-", "-", "H", "E", "L", "P" >>,
     << "1", "h", " ", "3", "0", "m" >>,
     << "1", "h", " ", "3", "0", "m", " ", "1", "5", "s" >>,
     << "2", "h", " ", "1", "5", "s" >>,
     << "5", "m", "i", "n", "s" >>,
     << "1", "h", "o", "u", "r" >>,
     << "3", "0", "s", "e", "c", "o", "n", "d", "s" >>,
     << "1", "h", "r", " ", "2", "m", "i", "n", " ", "3", "s", "e", "c" >>,
     << "1", "h", "r", "s", " ", "2", "m", "i", "n", "u", "t", "e", "s", " ", "3", "s", "e", "c", "s" >>,
     << "2", "H", " ", "5", "M" >>,
     << "0", "m" >>,
     << "0", "h", " ", "0", "s" >>,
     << "5", "x" >>,
     << "1", "h", "3", "0", "m" >>,
     << "1", "h", " ", " ", "3", "0", "m", "\t", "1", "5", "s" >>,
     << "1", "0", "s", " ", "5" >>,
     << "5", "1", "2", "4", "0", "9", "5", "5", "7", "6", "0", "3", "0", "4", "3", "1", "h" >>,
     << "5", "1", "2", "4", "0", "9", "5", "5", "7", "6", "0", "3", "0", "4", "3", "2", "h" >>,
     << "3", "0", "7", "4", "4", "5", "7", "3", "4", "5", "6", "1", "8", "2", "5", "8", "6", "1", "m" >>,
     << "1", "8", "4", "4", "6", "7", "4", "4", "0", "7", "3", "7", "0", "9", "5", "5", "1", "6", "1", "5", "s" >>,
     << "1", "8", "4", "4", "6", "7", "4", "4", "0", "7", "3", "7", "0", "9", "5", "5", "1", "6", "1", "5", "s", " ", "1", "s" >>,
     << "1", "8", "4", "4", "6", "7", "4", "4", "0", "7", "3", "7", "0", "9", "5", "5", "1", "6", "1", "6", "s" >>}

PauseArgs == TextsUpTo(MaxLen) \cup LongTexts

\* pause_for_duration on Manager s: the duration is parsed first; only a
\* parsed duration pauses, manually, and leaves an auto-resume task asleep.
pause_for_duration(s, duration_str, checked) ==
    LET duration == parse_duration(duration_str, checked)
    IN  IF duration.kind = "Ok"
        THEN [mgr |-> Quiescent(Pause(s, TRUE)), result |-> duration,
              time_str |-> TimeStr(duration.secs), pc |-> "sleeping"]
        ELSE [mgr |-> s, result |-> duration, time_str |-> << >>, pc |-> "done"]

\* One `pause <duration>` connection has read its argument.
InitPause ==
    /\ \E c \in Configs, env \in SpawnEnv : mgr = Started(c, TRUE, env)
    /\ now = 0
    /\ started = TRUE
    /\ lw_pc = "watch"
    /\ sd = SdRunning
    /\ media = MediaIdle
    /\ idle = IdleParked
    /\ \E arg \in PauseArgs, checked \in BOOLEAN :
          ipc = [pc |-> "read", arg |-> arg, checked |-> checked,
                 result |-> [kind |-> "none"], time_str |-> << >>,
                 resumed |-> FALSE, repaused |-> FALSE]

PauseForDuration ==
    /\ ipc.pc = "read"
    /\ LET r == pause_for_duration(mgr, ipc.arg, ipc.checked)
       IN  /\ mgr' = r.mgr
           /\ ipc' = [ipc EXCEPT !.pc = r.pc, !.result = r.result, !.time_str = r.time_str]
    /\ UNCHANGED << now, started, lw_pc, sd, media, idle >>

\* The spawned task's sleep(duration) ends: resume(true).
AutoResume ==
    /\ ipc.pc = "sleeping"
    /\ mgr' = Quiescent(Resume(mgr, TRUE))
    /\ ipc' = [ipc EXCEPT !.pc = "done"]
    /\ UNCHANGED << now, started, lw_pc, sd, media, idle >>

\* `resume` over IPC while the auto-resume task is asleep.
ResumeWhileTimed ==
    /\ ipc.pc = "sleeping"
    /\ ~ipc.resumed
    /\ mgr' = Quiescent(Resume(mgr, TRUE))
    /\ ipc' = [ipc EXCEPT !.resumed = TRUE]
    /\ UNCHANGED << now, started, lw_pc, sd, media, idle >>

\* `pause` without a duration after that resume, the task still asleep.
PauseWhileTimed ==
    /\ ipc.pc = "sleeping"
    /\ ipc.resumed /\ ~ipc.repaused
    /\ mgr' = Quiescent(Pause(mgr, TRUE))
    /\ ipc' = [ipc EXCEPT !.repaused = TRUE]
    /\ UNCHANGED << now, started, lw_pc, sd, media, idle >>

NextPause == PauseForDuration \/ AutoResume \/ ResumeWhileTimed \/ PauseWhileTimed

SpecPause == InitPause /\ [][NextPause]_vars

\* What C23 says of one token: a run of digits that is a u64, then a unit.
WellFormedPart(part) ==
    /\ SplitPos(part) > 1
    /\ ParseU64(SubSeq(part, 1, SplitPos(part) - 1), U64Zero).ok
    /\ Multiplier(LowerAll(SubSeq(part, SplitPos(part), Len(part)))) # 0

\* The sum of number x unit-seconds over well-formed tokens, and whether it
\* is still a number of 64 bits.
RECURSIVE ClaimedSum(_, _)
ClaimedSum(parts, acc) ==
    IF parts = << >> THEN acc
    ELSE LET part == Head(parts)
             num == ParseU64(SubSeq(part, 1, SplitPos(part) - 1), U64Zero).val
             product == MulAdd(num, Multiplier(LowerAll(SubSeq(part, SplitPos(part), Len(part)))), 0)
             sum == AddU64(acc.val, product.val)
         IN  ClaimedSum(Tail(parts),
                        [val |-> sum.val,
                         fits |-> acc.fits /\ ~product.overflow /\ ~sum.overflow])

IsHelp(s) == LowerAll(Trim(s)) = << "h", "e", "l", "p" >> \/ Trim(s) \in HelpWords

\* C23 for the request in `ipc`, with `all` telling whether inputs whose
\* sum exceeds 64 bits are looked at.
DurationClaim(all) ==
    LET parts == SplitWhitespace(ipc.arg, << >>)
        wf == \A i \in 1..Len(parts) : WellFormedPart(parts[i])
        sum == IF wf THEN ClaimedSum(parts, [val |-> U64Zero, fits |-> TRUE])
               ELSE [val |-> U64Zero, fits |-> TRUE]
        r == pause_for_duration(mgr, ipc.arg, ipc.checked)
    IN  (ipc.pc = "read" /\ (all \/ sum.fits)) =>
          /\ (~IsHelp(ipc.arg) /\ wf /\ sum.val # U64Zero) =>
                (sum.fits /\ r.result = [kind |-> "Ok", secs |-> sum.val])
          /\ (IsHelp(ipc.arg) \/ ~wf \/ (sum.fits /\ sum.val = U64Zero)) =>
                (r.result.kind = "Err" /\ r.mgr = mgr)
          /\ r.result.kind = "Ok" =>
                parse_duration(r.time_str, ipc.checked) = r.result

\* C23: parse_duration on a whitespace-separated list of <number><unit>
\* tokens returns the sum of number x unit-seconds; it returns an error, and
\* nothing is paused, when the input is empty, a token has no unit or an
\* unknown unit, the total is 0, or the input is help/-h/--help; and the
\* human string written for a parsed duration parses back to that duration.
C23_ParseDurationSumsAndRoundTrips == DurationClaim(TRUE)

\* The same for the inputs whose sum is a number of 64 bits.
C23_ParseDurationWithinU64 == DurationClaim(FALSE)

\* C24: after reset_on_activity runs while is_locked is false, action_index
\* is 0 and every non-instant stage of every block has last_triggered unset,
\* whatever action_index and last_triggered were before.
C24_UnlockedResetRewinds ==
    (started /\ ~mgr.lock_state.is_locked) =>
        \A env \in ResetEnv(FALSE) :
            LET r == Reset(mgr, now, env)
            IN  /\ r.action_index = 0
                /\ \A b \in DOMAIN r.actions : \A i \in 1..Len(r.actions[b]) :
                      ~IsInstant(r.actions[b][i]) => r.actions[b][i].last_triggered = None

\* The half of C24 about last_triggered alone.
C24_UnlockedResetClearsStages ==
    (started /\ ~mgr.lock_state.is_locked) =>
        \A env \in ResetEnv(FALSE) :
            LET r == Reset(mgr, now, env)
            IN  \A b \in DOMAIN r.actions : \A i \in 1..Len(r.actions[b]) :
                   r.actions[b][i].last_triggered = None

\* ======================================================================
\* Blocks with stages on both sides of the lock stage; laptops with one block
\* ======================================================================
\* A desktop with a debounce of one second: dim, lock, then dpms.
CfgLockThenDpms ==
    [chassis |-> "Desktop", debounce_seconds |-> 1,
     notify_before_action |-> FALSE, notify_seconds_before |-> 0,
     lid_close_action |-> "Ignore", lid_open_action |-> "Ignore",
     pre_suspend_command |-> NoCmd,
     actions |-> << Act("", "brightness", "Brightness", 1, "dim", "undim"),
                    Act("", "lock_screen", "LockScreen", 1, "swaylock", NoCmd),
                    Act("", "dpms", "Dpms", 1, "dpms-off", "dpms-on") >>]

\* A desktop whose block opens with an instant action: startup hook, lock,
\* then dpms.
CfgInstantThenLock ==
    [chassis |-> "Desktop", debounce_seconds |-> 0,
     notify_before_action |-> FALSE, notify_seconds_before |-> 0,
     lid_close_action |-> "Ignore", lid_open_action |-> "Ignore",
     pre_suspend_command |-> NoCmd,
     actions |-> << Act("", "startup", "Custom", 0, "startup-hook", NoCmd),
                    Act("", "lock_screen", "LockScreen", 1, "swaylock", NoCmd),
                    Act("", "dpms", "Dpms", 2, "dpms-off", "dpms-on") >>]

\* A laptop whose file has an on_ac block only: load_config yields ac.*
\* actions and nothing else.
CfgLaptopAcOnly ==
    [chassis |-> "Laptop", debounce_seconds |-> 0,
     notify_before_action |-> FALSE, notify_seconds_before |-> 0,
     lid_close_action |-> "Ignore", lid_open_action |-> "Ignore",
     pre_suspend_command |-> NoCmd,
     actions |-> << Act("ac", "ac.dpms", "Dpms", 1, "dpms-off", "dpms-on") >>]

\* A laptop whose file has an on_battery block only.
CfgLaptopBatteryOnly ==
    [chassis |-> "Laptop", debounce_seconds |-> 0,
     notify_before_action |-> FALSE, notify_seconds_before |-> 0,
     lid_close_action |-> "Ignore", lid_open_action |-> "Ignore",
     pre_suspend_command |-> NoCmd,
     actions |-> << Act("battery", "battery.suspend", "Suspend", 1, "systemctl suspend", NoCmd) >>]

\* A desktop that locks through logind: the lock stage's command is loginctl
\* lock-session and its lock_command starts the locker.
CfgLoginctl ==
    [chassis |-> "Desktop", debounce_seconds |-> 0,
     notify_before_action |-> FALSE, notify_seconds_before |-> 0,
     lid_close_action |-> "Ignore", lid_open_action |-> "Ignore",
     pre_suspend_command |-> NoCmd,
     actions |-> << [Act("", "lock_screen", "LockScreen", 1, "loginctl lock-session", NoCmd)
                        EXCEPT !.lock_command = "hyprlock"],
                    Act("", "dpms", "Dpms", 1, "dpms-off", "dpms-on") >>]

StageConfigs ==
    {CfgLockThenDpms, CfgInstantThenLock, CfgLoginctl,
     CfgLaptop, CfgLaptopAcOnly, CfgLaptopBatteryOnly}

\* The daemon started on one of these, on either power source, then driven
\* by time, input, the scheduler, the power monitor, logind's Lock signal
\* and the lock supervisor.
InitStages ==
    /\ \E c \in StageConfigs, on_ac \in BOOLEAN, env \in RunEnv : mgr = Started(c, on_ac, env)
    /\ now = 0
    /\ started = TRUE
    /\ lw_pc = "watch"
    /\ ipc = IpcIdle
    /\ sd = SdRunning
    /\ media = MediaIdle
    /\ idle = IdleParked

NextStages ==
    \/ Tick
    \/ ACConnected
    \/ ACDisconnected
    \/ InputActivity
    \/ IdleCheck
    \/ LoginctlLock
    \/ LockWatcherPoll
    \/ LockWatcherUnlock

SpecStages == InitStages /\ [][NextStages]_vars

\* C25: after reset_on_activity runs while is_locked is true and the current
\* block has a LockScreen stage at lock_index, action_index is lock_index + 1
\* and the stage at that index has last_triggered = now + debounce_seconds;
\* a lock stage that had fired is not re-armed (its last_triggered stays set).
C25_LockedResetAdvancesPastLock ==
    LET block == mgr.actions[BlockName(mgr)]
        lock_index == LockIndex(block)
    IN  (mgr.lock_state.is_locked /\ HasLock(block)) =>
          \A env \in ResetEnv(TRUE) :
             LET r == Reset(mgr, now, env)
                 after == r.actions[BlockName(mgr)]
             IN  /\ r.action_index = lock_index + 1
                 /\ lock_index + 1 < Len(block) =>
                       after[lock_index + 2].last_triggered = now + mgr.cfg.debounce_seconds
                 /\ block[lock_index + 1].last_triggered # None =>
                       after[lock_index + 1].last_triggered # None

\* The same when the locker is seen running and the block's first unset
\* stage is not an instant one.
C25_LockedResetWithLockerRunning ==
    LET block == mgr.actions[BlockName(mgr)]
        lock_index == LockIndex(block)
        cleared == ClearTriggered(block, TRUE)
    IN  (/\ mgr.lock_state.is_locked /\ HasLock(block)
         /\ ~IsInstant(cleared[FirstUntriggered(cleared) + 1])) =>
          \A env \in ResetEnv(TRUE) :
             LET r == Reset(mgr, now, env)
                 after == r.actions[BlockName(mgr)]
             IN  (env.running \/ mgr.lock_state.command = NoCmd) =>
                 /\ r.action_index = lock_index + 1
                 /\ lock_index + 1 < Len(block) =>
                       after[lock_index + 2].last_triggered = now + mgr.cfg.debounce_seconds
                 /\ block[lock_index + 1].last_triggered # None =>
                       after[lock_index + 1].last_triggered # None

\* ActionQueue::clear_triggered_before_lock over one block.
ClearTriggeredBeforeLock(seq, is_locked) ==
    [i \in 1..Len(seq) |->
        IF is_locked /\ PastLock(seq, i) THEN seq[i]
        ELSE IF IsInstant(seq[i]) THEN seq[i]
        ELSE [seq[i] EXCEPT !.last_triggered = None]]

\* What C26 says of one block before and after the walk. `through` is the
\* last position that is cleared while locked: the lock stage, or the whole
\* block when it has none.
ClearedThrough(before, after, is_locked, through) ==
    /\ Len(after) = Len(before)
    /\ \A i \in 1..Len(before) :
          IF IsInstant(before[i]) THEN after[i] = before[i]
          ELSE IF is_locked /\ i > through THEN after[i] = before[i]
          ELSE after[i] = [before[i] EXCEPT !.last_triggered = None]

LockPosition(seq) == IF HasLock(seq) THEN LockIndex(seq) + 1 ELSE Len(seq)

\* C26: clear_triggered_before_lock(is_locked), for each block: when
\* is_locked it clears last_triggered of every non-instant stage at or before
\* the LockScreen stage (the lock stage included) and leaves every stage
\* after it unchanged; when not locked it clears every non-instant stage; it
\* never changes last_triggered of an instant action. Both copies of the
\* walk are looked at: ActionQueue's and the loop in Manager::reset.
C26_ClearsThroughLockStage ==
    \A b \in DOMAIN mgr.actions : \A is_locked \in BOOLEAN :
        LET seq == mgr.actions[b]
        IN  /\ ClearedThrough(seq, ClearTriggeredBeforeLock(seq, is_locked),
                              is_locked, LockPosition(seq))
            /\ ClearedThrough(seq, ClearTriggered(seq, is_locked),
                              is_locked, LockPosition(seq))

\* ActionQueue's walk clears the non-instant stages before the lock stage
\* and keeps the lock stage and those after it.
C26_QueueClearsBeforeLockStage ==
    \A b \in DOMAIN mgr.actions : \A is_locked \in BOOLEAN :
        LET seq == mgr.actions[b]
        IN  ClearedThrough(seq, ClearTriggeredBeforeLock(seq, is_locked),
                           is_locked, LockPosition(seq) - (IF HasLock(seq) THEN 1 ELSE 0))

\* The loop in Manager::reset does the same except that it clears instant
\* actions as well.
C26_ResetLoopSparesInstants ==
    \A b \in DOMAIN mgr.actions : \A is_locked \in BOOLEAN :
        LET seq == mgr.actions[b]
        IN  ClearedThrough(seq, ClearTriggered(seq, is_locked),
                           is_locked, LockPosition(seq) - (IF HasLock(seq) THEN 1 ELSE 0))

\* The least member of a non-empty set of instants, None for the empty set.
Earliest(times) ==
    IF times = {} THEN None ELSE CHOOSE m \in times : \A x \in times : m <= x

\* ActionQueue::next_action_time on the Manager's current block.
NextActionTime(s, is_locked, last_activity, debounce, notify_enabled, notify_seconds) ==
    LET actions == GetActiveActions(s)
        original_fire_time(i) ==
            IF actions[i].last_triggered # None THEN actions[i].last_triggered + actions[i].timeout
            ELSE IF i > 1
                 THEN (IF actions[i - 1].last_triggered # None
                       THEN actions[i - 1].last_triggered + actions[i].timeout
                       ELSE last_activity + actions[i].timeout)
                 ELSE (IF debounce # None THEN debounce ELSE last_activity) + actions[i].timeout
        next_time(i) ==
            IF notify_enabled /\ actions[i].notification # NoCmd
               /\ s.notification_sent_for_action = i - 1
            THEN original_fire_time(i) + notify_seconds
            ELSE original_fire_time(i)
    IN  Earliest({next_time(i) : i \in {j \in 1..Len(actions) :
                     ~(actions[j].kind = "LockScreen" /\ is_locked)}})

\* The wake instant as C27 words it.
ClaimedNextWake(s) ==
    LET actions == s.actions[s.current_block]
        base(i) ==
            IF actions[i].last_triggered # None THEN actions[i].last_triggered
            ELSE IF i > 1 /\ actions[i - 1].last_triggered # None
                 THEN actions[i - 1].last_triggered
            ELSE IF i = 1 /\ s.debounce # None /\ s.debounce > s.last_activity
                 THEN s.debounce
            ELSE s.last_activity
        notify_secs(i) ==
            IF HasPreWarn(s, actions[i]) /\ s.notification_sent_for_action = i - 1
            THEN s.cfg.notify_seconds_before ELSE 0
    IN  Earliest({base(i) + actions[i].timeout + notify_secs(i) :
                     i \in {j \in 1..Len(actions) :
                               ~(actions[j].kind = "LockScreen" /\ s.lock_state.is_locked)}})

\* C27: the instant the scheduler uses for its next wake is the minimum,
\* over the actions of the current block only and without the LockScreen
\* stage when is_locked, of base + timeout (+ notify_secs once that action's
\* pre-warn was sent), where base is last_triggered(i) if set, else
\* last_triggered(i-1) if i > 0 and set, else max(last_activity,
\* debounce_until) for i = 0, else last_activity; None when the block is
\* empty or only the excluded lock stage remains.
C27_SchedulerWakeInstant ==
    (started /\ ~TimersPaused(mgr)) => NextActionInstant(mgr) = ClaimedNextWake(mgr)

\* The same of ActionQueue::next_action_time, which the scheduler does not
\* call.
C27_QueueNextActionTime ==
    started =>
        NextActionTime(mgr, mgr.lock_state.is_locked, mgr.last_activity, mgr.debounce,
                       mgr.cfg.notify_before_action, mgr.cfg.notify_seconds_before)
            = ClaimedNextWake(mgr)

\* ActionQueue::determine_block
DetermineBlock(s, on_battery) ==
    IF on_battery
    THEN (IF s.actions.battery # << >> THEN "battery" ELSE "default")
    ELSE (IF s.actions.ac # << >> THEN "ac" ELSE "default")

\* The active block as C28 words it.
ClaimedBlock(s) ==
    IF s.chassis = "Desktop" THEN "default"
    ELSE IF s.on_battery /\ s.actions.battery # << >> THEN "battery"
    ELSE IF s.actions.ac # << >> THEN "ac"
    ELSE "default"

\* C28: for every combination of chassis, on_battery and empty or non-empty
\* blocks: on a laptop the active block is "battery" when on_battery and the
\* battery block is non-empty, otherwise "ac" when the ac block is non-empty,
\* otherwise "default"; on a desktop it is always "default". This is said of
\* current_block and of each of the three places that choose a block.
C28_BlockSelection ==
    /\ mgr.current_block = ClaimedBlock(mgr)
    /\ UpdateCurrentBlock(mgr).current_block = ClaimedBlock(mgr)
    /\ BlockName(mgr) = ClaimedBlock(mgr)
    /\ mgr.chassis = "Laptop" => DetermineBlock(mgr, mgr.on_battery) = ClaimedBlock(mgr)

\* update_current_block and determine_block agree with C28 except on a
\* laptop on battery whose battery block is empty.
C28_BlockSelectionWithBatteryBlock ==
    ~(mgr.chassis = "Laptop" /\ mgr.on_battery /\ mgr.actions.battery = << >>) =>
        /\ UpdateCurrentBlock(mgr).current_block = ClaimedBlock(mgr)
        /\ mgr.chassis = "Laptop" => DetermineBlock(mgr, mgr.on_battery) = ClaimedBlock(mgr)

\* C29: lock_state.is_locked goes from true to false only in the lock
\* supervisor's unlock transition; no event handler and no IPC command, a
\* config reload while locked among them, clears it.
C29_OnlySupervisorUnlocks ==
    [][(mgr.lock_state.is_locked /\ ~mgr'.lock_state.is_locked) =>
          (lw_pc = "ended" /\ lw_pc' = "watch")]_vars

\* C30: in the lock supervisor's poll a probe that cannot be answered
\* (logind unreachable, None) counts as still locked: no poll in which logind
\* reports locked, or in which the logind query failed, leads to the unlock
\* transition.
C30_NoUnlockOnLockedOrFailedProbe ==
    (started /\ lw_pc = "watch" /\ mgr.lock_state.is_locked) =>
        \A env \in Env : env.logind \in {"locked", "none"} => StillActive(mgr, env)

\* The half of C30 about a poll in which logind reports locked.
C30_NoUnlockWhenLogindLocked ==
    (started /\ lw_pc = "watch" /\ mgr.lock_state.is_locked) =>
        \A env \in Env : env.logind = "locked" => StillActive(mgr, env)

\* A failed logind query with neither process info nor a lock command.
C30_NoUnlockWithoutAnyProbe ==
    (started /\ lw_pc = "watch" /\ mgr.lock_state.is_locked
       /\ ~mgr.lock_state.process_info /\ mgr.lock_state.command = NoCmd) =>
        \A env \in Env : StillActive(mgr, env)

\* C31: in every reachable state, if some LockScreen action has
\* last_triggered set then lock_state.is_locked is true (a lock fire skipped
\* because the session was already locked leaves is_locked true as well),
\* also when the scheduler stamps the next stage on advancing the index.
C31_StampedLockMeansLocked ==
    (\E i \in 1..Len(AllActions(mgr)) :
        /\ AllActions(mgr)[i].kind = "LockScreen"
        /\ AllActions(mgr)[i].last_triggered # None)
    => mgr.lock_state.is_locked

\* The same of the stage a check has just fired: a LockScreen stage fired by
\* check_timeouts leaves the session marked locked.
C31_FiredLockMeansLocked ==
    started =>
        \A env \in RunEnv :
            LET r == CheckTimeouts(mgr, now, env)
            IN  (r.fired # << >> /\ r.fired[1].kind = "LockScreen") => r.lock_state.is_locked

\* C32: a LoginctlLock event received while is_locked is already true changes
\* no state and spawns no command; received while unlocked it sets is_locked,
\* spawns the configured lock_command and nothing else, tracks it in
\* process_info when the spawn succeeds, sets post_advanced, and leaves the
\* lock supervisor with a locked session to monitor.
C32_LoginctlLockOnce ==
    \A env \in SpawnEnv \cup {[e EXCEPT !.spawn_ok = FALSE] : e \in SpawnEnv} :
        LET r == LoginctlLockEvent(mgr, env)
            lock == FindKind(mgr.cfg, "LockScreen")
            lock_cmd == IF lock = << >> THEN NoCmd ELSE lock[1].lock_command
        IN  IF mgr.lock_state.is_locked
            THEN r = mgr
            ELSE /\ r.lock_state.is_locked
                 /\ r.lock_state.post_advanced
                 /\ r.spawned = (IF lock_cmd # NoCmd THEN << lock_cmd >> ELSE << >>)
                 /\ r.lock_state.process_info =
                       (mgr.lock_state.process_info \/ (lock_cmd # NoCmd /\ env.spawn_ok))
                 /\ [r EXCEPT !.lock_state = mgr.lock_state, !.spawned = << >>] = mgr
                 /\ Quiescent(r).lock_state.is_locked

\* A LoginctlLock event has just locked the session and started the locker.
C32_LockedByLogind ==
    /\ mgr.lock_state.is_locked
    /\ mgr.lock_state.process_info
    /\ mgr.cfg = CfgLoginctl
    /\ mgr.actions.default[1].last_triggered = None
    /\ lw_pc = "watch"

\* ---------------------------------------------------------------------- C33
\* What check_timeouts leaves when the spawn of the due stage's command
\* fails, next to what it leaves when the spawn succeeds.
FailedSpawn(env) == [env EXCEPT !.spawn_ok = FALSE]

GoodSpawn(env) == [env EXCEPT !.spawn_ok = TRUE]

\* The stage is stamped with the time of the check, action_index moves on by
\* one (held at the last stage), and stamps, index and resume queue are those
\* of a successful spawn.
AttemptedAsOnSuccess(env) ==
    LET r == CheckTimeouts(mgr, now, FailedSpawn(env))
        ok == CheckTimeouts(mgr, now, GoodSpawn(env))
        f == r.fired[1]
        block == r.actions[r.current_block]
    IN  /\ ok.fired = r.fired
        /\ block[f.index + 1].last_triggered = now
        /\ r.action_index = Min(mgr.action_index + 1, Len(block) - 1)
        /\ (f.index + 1 < Len(block) => r.action_index > f.index)
        /\ r.actions = ok.actions
        /\ r.action_index = ok.action_index
        /\ r.resume_queue = ok.resume_queue

\* The command of the stage check_timeouts fired.
FiredCommand(r) == r.actions[r.current_block][r.fired[1].index + 1].command

\* C33 as stated: when the command of a due stage cannot be spawned, the
\* stage is stamped and action_index advances exactly as on a successful
\* spawn, and for every LockScreen stage is_locked is set to true.
C33_FailedSpawnStillAttempted ==
    \A env \in RunEnv :
        LET r == CheckTimeouts(mgr, now, FailedSpawn(env))
        IN  r.fired # << >> =>
                /\ AttemptedAsOnSuccess(env)
                /\ (r.fired[1].kind = "LockScreen" => r.lock_state.is_locked)

\* C33, amended: when the command of a due stage cannot be spawned, the stage
\* is stamped and action_index advances exactly as on a successful spawn, and
\* for a LockScreen stage whose command is not `loginctl lock-session`
\* is_locked is set to true; a loginctl stage leaves is_locked as it was.
C33_FailedSpawnAttemptedDirectLock ==
    \A env \in RunEnv :
        LET r == CheckTimeouts(mgr, now, FailedSpawn(env))
        IN  r.fired # << >> =>
                /\ AttemptedAsOnSuccess(env)
                /\ (r.fired[1].kind = "LockScreen" =>
                       IF IsLoginctl(FiredCommand(r))
                       THEN r.lock_state = mgr.lock_state
                       ELSE r.lock_state.is_locked)

\* A direct lock stage is due, no locker is running, and the spawn of the
\* locker fails: the check has stamped the stage and set is_locked without a
\* tracked process.
C33_LockStageSpawnFails ==
    \E env \in RunEnv :
        LET r == CheckTimeouts(mgr, now, FailedSpawn(env))
        IN  /\ started
            /\ ~env.running
            /\ r.fired # << >>
            /\ r.fired[1].kind = "LockScreen"
            /\ ~IsLoginctl(FiredCommand(r))
            /\ r.spawned = << FiredCommand(r) >>
            /\ ~r.lock_state.process_info
            /\ r.lock_state.is_locked
            /\ ~mgr.lock_state.is_locked

\* ---------------------------------------------------------------------- C34
\* C34: the Manager mutex is never held while a task waits for an externally
\* configured command to run to completion or for a fixed delay tied to one
\* (pre_suspend_command via IPC trigger, the 500 ms pre-suspend wait, the
\* 200 ms wait in shutdown), so the scheduler and the other tasks can take
\* the mutex during the wait.
C34_MutexFreeDuringWaits ==
    sd.wait # "none" => sd.mutex = "free"

\* What holds instead: each of the three waits is made by the holder of the
\* mutex, from its first moment to its last.
C34_WaiterHoldsMutex ==
    /\ sd.wait = "pre_suspend_command" <=> sd.mutex = "ipc"
    /\ sd.wait = "pre_suspend_delay" <=> sd.mutex = "idle"
    /\ sd.wait = "shutdown_delay" <=> sd.mutex = "shutdown"
    /\ sd.wait = "none" <=> sd.mutex = "free"

\* ---------------------------------------------------------------------- C35
\* The stages check_timeouts, reset, `trigger all` and `trigger <name>` take:
\* those of the block they compute from on_battery and the blocks' emptiness.
OperatedStages(s) == s.actions[BlockName(s)]

\* C35: in every reachable state the block whose stages check_timeouts,
\* reset, `trigger all` and `trigger <name>` operate on is the block named
\* by current_block, as update_current_block chooses it, also on a laptop on
\* battery whose battery block is empty.
C35_OperatedBlockIsCurrentBlock ==
    started =>
        /\ BlockName(mgr) = mgr.current_block
        /\ mgr.current_block = UpdateCurrentBlock(mgr).current_block

\* The same with the blocks compared by their stages instead of their names.
C35_OperatedStagesAreCurrentStages ==
    started => OperatedStages(mgr) = mgr.actions[mgr.current_block]

\* ======================================================================
\* The media monitors (spawn_media_monitor_dbus, the browser media monitor)
\* ======================================================================
\* A fourth small system: one non-browser MPRIS player (media.vlc) and up to
\* MaxTabs playing browser tabs (media.tabs) start and stop; the MPRIS
\* PropertiesChanged loop, the polling tasks of the browser monitor and the
\* 30 s bridge detection loop are followed handler by handler.
\*
\* state.rs declares media_bridge_active and browser_media_playing and
\* nothing in src writes them, while browser_media.rs keeps the bridge's
\* flag in media_bridge.active; media.reads_bridge says, for one behaviour,
\* whether the MPRIS loop's bridge_active is the bridge's flag or the field
\* that stays false.

\* The Manager and the media flags beside it, as the handlers take them.
MediaView ==
    [m |-> mgr, media_playing |-> media.media_playing,
     browser_media_playing |-> FALSE, bridge |-> media.bridge]

\* What a handler of the media monitors leaves in the two variables.
MediaLeaves(x, rest) ==
    /\ x.m.active_inhibitor_count <= MaxHeld
    /\ mgr' = Quiescent(x.m)
    /\ media' = [rest EXCEPT !.media_playing = x.media_playing, !.bridge = x.bridge]

\* check_media_playing(.., skip_firefox): a non-browser player is Playing, or
\* the browser's own MPRIS player is and is not skipped.
CheckMediaPlaying(vlc, tabs, skip_firefox) == vlc \/ (~skip_firefox /\ tabs > 0)

\* One PropertiesChanged message handled by the loop of
\* spawn_media_monitor_dbus.
MprisPropertiesChanged(x, bridge_active, socket, vlc, tabs, t, env) ==
    IF bridge_active
    THEN LET any_non_browser_playing == CheckMediaPlaying(vlc, tabs, TRUE)
             browser_playing == x.browser_media_playing
             should_be_playing == browser_playing \/ any_non_browser_playing
             x1 == IF any_non_browser_playing /\ ~x.media_playing
                   THEN [x EXCEPT !.m = IncrActiveInhibitor(x.m)]
                   ELSE IF ~any_non_browser_playing /\ x.media_playing /\ ~browser_playing
                   THEN [x EXCEPT !.m = DecrActiveInhibitor(x.m, t, env)]
                   ELSE x
         IN  [x1 EXCEPT !.media_playing = should_be_playing]
    ELSE LET skip_ff == socket
             any_playing == CheckMediaPlaying(vlc, tabs, skip_ff)
             still_audible == ~skip_ff /\ (vlc \/ tabs > 0)
         IN  IF any_playing /\ ~x.media_playing
             THEN [x EXCEPT !.m = IncrActiveInhibitor(x.m), !.media_playing = TRUE]
             ELSE IF ~any_playing /\ x.media_playing /\ ~still_audible
             THEN [x EXCEPT !.m = DecrActiveInhibitor(x.m, t, env),
                            !.media_playing = FALSE]
             ELSE x

InitMedia ==
    /\ \E c \in Configs :
          mgr = Started(c, TRUE, [logind |-> "none", running |-> FALSE, spawn_ok |-> TRUE])
    /\ now = 0
    /\ started = TRUE
    /\ lw_pc = "watch"
    /\ ipc = IpcIdle
    /\ sd = SdRunning
    /\ \E socket \in BOOLEAN, reads \in BOOLEAN :
          media = [MediaIdle EXCEPT !.socket = socket, !.reads_bridge = reads]
    /\ idle = IdleParked

\* A non-browser player starts or stops playing; its PlaybackStatus change
\* is queued on the MessageStream.
PlayerChanges ==
    /\ media' = [media EXCEPT !.vlc = ~media.vlc, !.signal = TRUE]
    /\ UNCHANGED << mgr, now, started, lw_pc, ipc, sd, idle >>

\* Browser tabs start or stop playing; the browser's own MPRIS player
\* announces it when its PlaybackStatus changes with it, and may otherwise.
TabsChange ==
    /\ \E n \in 0..MaxTabs, announced \in BOOLEAN :
          /\ n # media.tabs
          /\ ((n > 0) # (media.tabs > 0)) => announced
          /\ media' = [media EXCEPT !.tabs = n, !.signal = media.signal \/ announced]
    /\ UNCHANGED << mgr, now, started, lw_pc, ipc, sd, idle >>

\* stream.next() yields the queued message.
MprisSignal ==
    /\ media.signal
    /\ \E env \in ResetEnv(mgr.lock_state.is_locked) :
          MediaLeaves(MprisPropertiesChanged(MediaView,
                          media.reads_bridge /\ media.bridge.active,
                          media.socket, media.vlc, media.tabs, now, env),
                      [media EXCEPT !.signal = FALSE])
    /\ UNCHANGED << now, started, lw_pc, ipc, sd, idle >>

\* One round of a polling task after its tick: query_browser_status, then
\* handle_browser_media_state when the report changed or the bridge was lost.
BrowserPoll ==
    /\ \E i \in 1..MaxMonitors, env \in ResetEnv(mgr.lock_state.is_locked) :
          LET task == media.tasks[i]
              changed == task.last_state = None \/ task.last_state # media.tabs
          IN  /\ task.pc = "tick"
              /\ IF media.socket
                 THEN MediaLeaves(
                          IF changed
                          THEN HandleBrowserMediaState(MediaView, media.tabs, now, env)
                          ELSE MediaView,
                          [media EXCEPT !.tasks[i] =
                              [task EXCEPT !.pc = "check", !.connected = TRUE,
                                           !.last_state = media.tabs]])
                 ELSE MediaLeaves(
                          IF task.connected
                          THEN HandleBrowserMediaState(MediaView, 0, now, env)
                          ELSE MediaView,
                          [media EXCEPT !.tasks[i] =
                              [task EXCEPT !.pc = "check", !.connected = FALSE,
                                           !.last_state = IF task.connected THEN None ELSE @]])
    /\ UNCHANGED << now, started, lw_pc, ipc, sd, idle >>

\* The top of the polling loop: SHUTDOWN_SIGNAL.load(), break when set.
MonitorChecksShutdown ==
    /\ \E i \in 1..MaxMonitors :
          /\ media.tasks[i].pc = "check"
          /\ media' = [media EXCEPT !.tasks[i].pc =
                          IF media.shutdown_signal THEN "exited" ELSE "tick"]
    /\ UNCHANGED << mgr, now, started, lw_pc, ipc, sd, idle >>

\* The bridge socket appears or disappears.
SocketChanges ==
    /\ media' = [media EXCEPT !.socket = ~media.socket]
    /\ UNCHANGED << mgr, now, started, lw_pc, ipc, sd, idle >>

\* spawn_browser_media_monitor: nothing when MONITOR_RUNNING was set; else
\* the bridge is activated and a polling task spawned.
SpawnBrowserMediaMonitor(md) ==
    IF md.monitor_running THEN md
    ELSE LET i == CHOOSE j \in 1..MaxMonitors :
                      /\ md.tasks[j].pc \in {"none", "exited"}
                      /\ \A k \in 1..(j - 1) : md.tasks[k].pc \notin {"none", "exited"}
         IN  [md EXCEPT !.monitor_running = TRUE,
                        !.bridge = Activate,
                        !.tasks[i] = [NoMonitor EXCEPT !.pc = "check"]]

\* A free place for one more polling task to be followed.
CanFollowSpawn == \E j \in 1..MaxMonitors : media.tasks[j].pc \in {"none", "exited"}

\* The detection loop finds the socket it had not seen: the MPRIS inhibitor
\* is cleared, then the browser monitor spawned.
BridgeDetected ==
    /\ media.socket /\ ~media.was_detected /\ ~media.stopping
    /\ CanFollowSpawn
    /\ \E env \in ResetEnv(mgr.lock_state.is_locked) :
          LET x == MediaView
              cleared == IF x.media_playing /\ ~x.browser_media_playing
                         THEN [x EXCEPT !.m = DecrActiveInhibitor(x.m, now, env),
                                        !.media_playing = FALSE]
                         ELSE x
              spawned == SpawnBrowserMediaMonitor(
                             [media EXCEPT !.media_playing = cleared.media_playing])
          IN  /\ mgr' = Quiescent(cleared.m)
              /\ media' = [spawned EXCEPT !.was_detected = TRUE]
    /\ UNCHANGED << now, started, lw_pc, ipc, sd, idle >>

\* The detection loop misses the socket it had seen: stop_browser_monitor
\* sets SHUTDOWN_SIGNAL and sleeps 100 ms.
StopBrowserMonitorSignals ==
    /\ ~media.socket /\ media.was_detected /\ ~media.stopping
    /\ media' = [media EXCEPT !.stopping = TRUE, !.shutdown_signal = TRUE]
    /\ UNCHANGED << mgr, now, started, lw_pc, ipc, sd, idle >>

\* After the 100 ms: the tabs' inhibitors are released, the bridge reset,
\* both flags cleared; stop_browser_monitor returns and the detection loop
\* re-checks MPRIS with the browser's player included.
StopBrowserMonitorReturns ==
    /\ media.stopping
    /\ \E env \in ResetEnv(mgr.lock_state.is_locked) :
          LET x == MediaView
              released == [x EXCEPT
                             !.m = DecrTimes(x.m, x.bridge.playing_tab_count, now, env),
                             !.bridge = InactiveBridge]
              playing == CheckMediaPlaying(media.vlc, media.tabs, FALSE)
              rechecked == IF playing /\ ~released.media_playing
                           THEN [released EXCEPT !.m = IncrActiveInhibitor(released.m),
                                                 !.media_playing = TRUE]
                           ELSE released
          IN  MediaLeaves(rechecked,
                  [media EXCEPT !.stopping = FALSE, !.shutdown_signal = FALSE,
                                !.monitor_running = FALSE, !.was_detected = FALSE,
                                !.tasks = [i \in 1..MaxMonitors |->
                                              IF media.tasks[i].pc \in {"check", "tick"}
                                              THEN [media.tasks[i] EXCEPT !.stopped = TRUE]
                                              ELSE media.tasks[i]]])
    /\ UNCHANGED << now, started, lw_pc, ipc, sd, idle >>

NextMedia ==
    \/ PlayerChanges
    \/ TabsChange
    \/ MprisSignal
    \/ BrowserPoll
    \/ MonitorChecksShutdown
    \/ SocketChanges
    \/ BridgeDetected
    \/ StopBrowserMonitorSignals
    \/ StopBrowserMonitorReturns

SpecMedia == InitMedia /\ [][NextMedia]_vars

\* ---------------------------------------------------------------------- C36
\* Every media source has stopped and the adapters have processed it: no
\* player and no tab is playing, no MPRIS message is queued, every polling
\* task has reported the present tab count (or seen the bridge gone), and the
\* detection loop has caught up with the socket.
MediaAllStopped ==
    /\ ~media.vlc /\ media.tabs = 0
    /\ ~media.signal
    /\ ~media.stopping /\ media.was_detected = media.socket
    /\ \A i \in 1..MaxMonitors :
          media.tasks[i].pc \in {"check", "tick"} =>
              IF media.socket THEN media.tasks[i].last_state = 0
              ELSE ~media.tasks[i].connected

\* C36: media inhibitors are conserved: once every media source has stopped
\* and the adapters have processed it, active_inhibitor_count is back to the
\* value it had before any media started (0) and paused is false.
C36_MediaInhibitorsConserved ==
    MediaAllStopped =>
        /\ mgr.active_inhibitor_count = 0
        /\ ~mgr.paused

\* ---------------------------------------------------------------------- C38
\* The polling tasks of the browser monitor that are alive.
AliveMonitors == {i \in 1..MaxMonitors : media.tasks[i].pc \in {"check", "tick"}}

\* A round of a polling task that stop_browser_monitor had stopped before.
StoppedTaskPolls ==
    \E i \in 1..MaxMonitors :
        /\ media.tasks[i].stopped
        /\ media.tasks[i].pc = "tick"
        /\ media'.tasks[i].pc = "check"

\* C38: for every sequence of spawn_browser_media_monitor and
\* stop_browser_monitor calls at most one polling task is alive at any time,
\* and after stop_browser_monitor has returned the stopped task increments
\* and decrements no inhibitor.
C38_OneMonitorAndStoppedIsSilent ==
    /\ [](Cardinality(AliveMonitors) <= 1)
    /\ [][StoppedTaskPolls =>
             mgr'.active_inhibitor_count = mgr.active_inhibitor_count]_vars

\* What the two flags do ensure: while MONITOR_RUNNING is set no second task
\* is spawned, so the tasks alive are at most one more than the stopped ones
\* among them, and a task that meets SHUTDOWN_SIGNAL at the top of its loop
\* exits.
C38_OneMonitorPerRunningFlag ==
    /\ Cardinality({i \in AliveMonitors : ~media.tasks[i].stopped}) <= 1
    /\ (~media.monitor_running /\ ~media.stopping) =>
           \A i \in AliveMonitors : media.tasks[i].stopped

\* ---------------------------------------------------------------------- C37
\* C37: the auto-resume scheduled by `pause <duration>` ends only the pause
\* that scheduled it: when the user has resumed manually and paused again
\* before the timer expired, the expiry leaves manually_paused true.
C37_AutoResumeEndsOwnPauseOnly ==
    (ipc.pc = "done" /\ ipc.result.kind = "Ok" /\ ipc.repaused) => mgr.manually_paused

\* What the expiry does: it ends whatever manual pause is in force, the one
\* that scheduled it or a later one.
C37_AutoResumeEndsAnyPause ==
    (ipc.pc = "done" /\ ipc.result.kind = "Ok") => ~mgr.manually_paused

\* ======================================================================
\* The end of a lock (spawn_lock_watcher against a lock that is gone)
\* ======================================================================
\* A fifth small system: the four paths that set the lock and InputActivity
\* interleave with a lock supervisor whose every probe finds logind not
\* locked (or unavailable) and no lock process.

\* The answers of the probes once the lock is gone.
GoneEnv == {e \in Env : e.logind # "locked" /\ ~e.running}

InitLockEnd ==
    /\ \E c \in Configs \cup {CfgLoginctl}, on_ac \in BOOLEAN, env \in RunEnv :
          mgr = Started(c, on_ac, env)
    /\ now = 0
    /\ started = TRUE
    /\ lw_pc = "watch"
    /\ ipc = IpcIdle
    /\ sd = SdRunning
    /\ media = MediaIdle
    /\ idle = IdleParked

\* One poll of the watch loop with the lock gone: the supervisor goes on to
\* the unlock transition unless still_active comes out true all the same.
LockWatcherSeesGone ==
    /\ lw_pc = "watch"
    /\ mgr.lock_state.is_locked
    /\ \E env \in GoneEnv : ~StillActive(mgr, env)
    /\ lw_pc' = "ended"
    /\ UNCHANGED << mgr, now, started, ipc, sd, media, idle >>

NextLockEnd ==
    \/ Tick
    \/ InputActivity
    \/ IdleCheck
    \/ LoginctlLock
    \/ LidClosed
    \/ TriggerByName
    \/ LockWatcherSeesGone
    \/ LockWatcherUnlock

\* The lock supervisor is a task of its own that polls every 500 ms.
SpecLockEnd ==
    /\ InitLockEnd /\ [][NextLockEnd]_vars
    /\ WF_vars(LockWatcherSeesGone) /\ WF_vars(LockWatcherUnlock)

\* ---------------------------------------------------------------------- C39
\* C39: lock-end liveness: when is_locked is true and logind reports not
\* locked and the lock process is gone, then under fair scheduling of the
\* lock supervisor is_locked eventually becomes false, whichever path set the
\* lock and whatever InputActivity events interleave.
C39_LockEventuallyEnds ==
    mgr.lock_state.is_locked ~> ~mgr.lock_state.is_locked

\* The same for a lock of which the supervisor has a process or a command
\* to probe.
C39_ProbedLockEventuallyEnds ==
    (mgr.lock_state.is_locked
        /\ (mgr.lock_state.process_info \/ mgr.lock_state.command # NoCmd))
    ~> ~mgr.lock_state.is_locked

\* ------------------------------------------------- the idle loop's wake-ups
\* A sixth small system: the scheduler of spawn_idle_task step by step, the
\* Notify it waits on, and the handlers that change the timing state and
\* signal it. The runtime is single-threaded (main.rs, flavor =
\* "current_thread"), so tasks interleave at their await points only: the
\* scheduler from the moment lock().await returns to the first poll of its
\* select is one step.

\* Notify::notify_waiters with nobody registered: nothing is stored.
NotifyWaitersDropped(sc) == [sc EXCEPT !.missed = TRUE]

\* Notify::notify_waiters: every registered Notified is woken; no permit is
\* stored when nobody waits.
NotifyWaiters(sc) ==
    IF sc.pc = "parked" /\ ~sc.woken THEN [sc EXCEPT !.woken = TRUE]
    ELSE IF sc.pc = "parked" THEN sc
    ELSE [sc EXCEPT !.missed = TRUE]

\* Notify::notify_one: the registered waiter is woken, otherwise the permit
\* is stored for the next notified().
NotifyOne(sc) ==
    IF sc.pc = "parked" /\ ~sc.woken THEN [sc EXCEPT !.woken = TRUE]
    ELSE [sc EXCEPT !.permit = TRUE]

\* What a handler's calls on state.notify leave, all made under one hold of
\* the Manager mutex.
Signal(sc, pending) ==
    LET a == IF pending.one THEN NotifyOne(sc) ELSE sc
    IN  IF pending.waiters THEN NotifyWaiters(a) ELSE a

\* reset() gets as far as its notify_one: it returns early when the stage the
\* cursor lands on is instant.
ResetNotifies(s) ==
    LET actions == ClearTriggered(s.actions[BlockName(s)], s.lock_state.is_locked)
        index == FirstUntriggered(actions)
    IN  ~(actions # << >> /\ IsInstant(actions[index + 1]))

InitWake ==
    /\ \E c \in Configs, on_ac \in BOOLEAN, env \in RunEnv : mgr = Started(c, on_ac, env)
    /\ now = 0
    /\ started = TRUE
    /\ lw_pc = "watch"
    /\ ipc = IpcIdle
    /\ sd = SdRunning
    /\ media = MediaIdle
    /\ idle = [IdleParked EXCEPT !.pc = "top"]

\* A handler that took the Manager mutex left the state s and has its calls
\* on state.notify still to make.
Holding(s, one, waiters) ==
    /\ mgr' = Quiescent(s)
    /\ idle' = [idle EXCEPT !.mutex = "handler", !.missed = FALSE,
                            !.pending = [one |-> one, waiters |-> waiters]]
    /\ UNCHANGED << now, started, lw_pc, ipc, sd, media >>

\* Event::ACConnected and Event::ACDisconnected: update_current_block calls
\* notify_one when the block changes, the arm ends with wake_idle_tasks.
ACEventSignals ==
    /\ idle.mutex = "free"
    /\ \E env \in RunEnv, on_battery \in BOOLEAN :
          Holding(ACEvent(mgr, on_battery, env),
                  SetOnBattery(mgr, on_battery).current_block # mgr.current_block,
                  TRUE)

\* Event::InputActivity: reset, then wake_idle_tasks.
InputActivitySignals ==
    /\ idle.mutex = "free"
    /\ \E env \in ResetEnv(mgr.lock_state.is_locked) :
          Holding(Reset(mgr, now, env), ResetNotifies(mgr), TRUE)

\* Event::Resume and Event::MediaPlaybackEnded: resume(false), then
\* wake_idle_tasks.
ResumeSignals ==
    /\ idle.mutex = "free"
    /\ Holding(Resume(mgr, FALSE), FALSE, TRUE)

\* Event::MediaPlaybackActive: pause(false), then wake_idle_tasks.
MediaPlaybackActiveSignals ==
    /\ idle.mutex = "free"
    /\ Holding(Pause(mgr, FALSE), FALSE, TRUE)

\* Event::LoginctlLock, ending with wake_idle_tasks.
LoginctlLockSignals ==
    /\ idle.mutex = "free"
    /\ \E env \in SpawnEnv : Holding(LoginctlLockEvent(mgr, env), FALSE, TRUE)

\* incr_active_inhibitor, ending with notify_one.
IncrInhibitorSignals ==
    /\ idle.mutex = "free"
    /\ mgr.active_inhibitor_count < MaxInhibitors
    /\ Holding(IncrActiveInhibitor(mgr), TRUE, FALSE)

\* decr_active_inhibitor: notify_one when the last inhibitor went away.
DecrInhibitorSignals ==
    /\ idle.mutex = "free"
    /\ mgr.active_inhibitor_count > 0
    /\ \E env \in ResetEnv(mgr.lock_state.is_locked) :
          Holding(DecrActiveInhibitor(mgr, now, env),
                  mgr.active_inhibitor_count = 1, FALSE)

\* trigger_action_by_name on a LockScreen stage of the block: the lock branch
\* ends with notify_one.
LockStageNames(s) ==
    LET block == s.actions[BlockName(s)]
    IN  {block[i].name : i \in {j \in 1..Len(block) : block[j].kind = "LockScreen"}}

TriggerLockSignals ==
    /\ idle.mutex = "free"
    /\ \E env \in RunEnv, name \in LockStageNames(mgr) :
          Holding(TriggerActionByName(mgr, name, now, env), TRUE, FALSE)

\* The handler makes its calls on state.notify and drops the guard.
HandlerReturns ==
    /\ idle.mutex = "handler"
    /\ idle' = [Signal(idle, idle.pending) EXCEPT
                   !.mutex = "free",
                   !.pending = [one |-> FALSE, waiters |-> FALSE]]
    /\ UNCHANGED << mgr, now, started, lw_pc, ipc, sd, media >>

\* The top of the loop: next_action_instant under the mutex, the guard
\* dropped, sleep_deadline, and the first poll of the select, which takes a
\* stored permit and goes round again or parks.
SchedulerComputes ==
    /\ idle.pc = "top"
    /\ idle.mutex = "free"
    /\ idle' = IF idle.permit
               THEN [idle EXCEPT !.permit = FALSE]
               ELSE [idle EXCEPT !.pc = "parked", !.woken = FALSE, !.at = now,
                                 !.deadline = SleepDeadline(mgr, now)]
    /\ UNCHANGED << mgr, now, started, lw_pc, ipc, sd, media >>

\* notify.notified() completes: continue.
SchedulerNotified ==
    /\ idle.pc = "parked"
    /\ idle.woken
    /\ idle' = [idle EXCEPT !.pc = "top", !.woken = FALSE]
    /\ UNCHANGED << mgr, now, started, lw_pc, ipc, sd, media >>

\* sleep_until completes: the scheduler goes for the mutex.
SchedulerTimer ==
    /\ idle.pc = "parked"
    /\ now >= idle.deadline
    /\ idle' = [idle EXCEPT !.pc = "woke", !.woken = FALSE]
    /\ UNCHANGED << mgr, now, started, lw_pc, ipc, sd, media >>

\* The scheduler has the mutex: check_timeouts unless paused.
SchedulerChecks ==
    /\ idle.pc = "woke"
    /\ idle.mutex = "free"
    /\ \E env \in RunEnv : mgr' = Quiescent(IdleCheckBody(mgr, now, env))
    /\ idle' = [idle EXCEPT !.pc = "checking", !.mutex = "idle"]
    /\ UNCHANGED << now, started, lw_pc, ipc, sd, media >>

\* The end of the loop body: the guard is dropped.
SchedulerReleases ==
    /\ idle.pc = "checking"
    /\ idle' = [idle EXCEPT !.pc = "top", !.mutex = "free"]
    /\ UNCHANGED << mgr, now, started, lw_pc, ipc, sd, media >>

NextWake ==
    \/ Tick
    \/ ACEventSignals
    \/ InputActivitySignals
    \/ ResumeSignals
    \/ MediaPlaybackActiveSignals
    \/ LoginctlLockSignals
    \/ IncrInhibitorSignals
    \/ DecrInhibitorSignals
    \/ TriggerLockSignals
    \/ HandlerReturns
    \/ SchedulerComputes
    \/ SchedulerNotified
    \/ SchedulerTimer
    \/ SchedulerChecks
    \/ SchedulerReleases

SpecWake == InitWake /\ [][NextWake]_vars

\* The scheduler is asleep: parked in its select, its Notified not woken, and
\* no handler holds the mutex with a signal still to send.
Asleep ==
    /\ idle.pc = "parked"
    /\ ~idle.woken
    /\ idle.mutex = "free"

\* C40: no lost wake-up in the idle loop. Whenever a handler changed the
\* timing state and signalled state.notify, with notify_one or with
\* notify_waiters, the scheduler does not stay asleep on a deadline computed
\* from the old state: whenever it is asleep, its sleep deadline is the one
\* next_action_instant gives for the current state, wherever the scheduler was
\* (parked, waiting for the mutex, in check_timeouts) when the signal came.
C40_NoLostWakeup ==
    Asleep => idle.deadline = SleepDeadline(mgr, idle.at)

\* The notify_waiters of the last handler found nobody registered, and the
\* scheduler is asleep all the same on a deadline that falls before the
\* periodic 60 s wake.
C40_AsleepAfterUnheardSignal ==
    /\ Asleep
    /\ idle.missed
    /\ idle.deadline < idle.at + 60

=============================================================================
